---- MODULE Spec2Model ----
(***************************************************************************)
(* A model of the CV ranking pipeline: the OpenAI client with its retry    *)
(* wrapper and reply parser (Project/core/openai_client.py), the ranking   *)
(* engine (Project/core/ranking_engine.py), the CV processor               *)
(* (core/cv_processor.py) and the run handler of app.py.                   *)
(*                                                                         *)
(* Text is modelled as a sequence of tokens that stand for pieces of a     *)
(* reply, joined by a newline: a fence, a labeled fence, a lone brace, a   *)
(* complete JSON object with or without all category keys, a JSON list, a  *)
(* JSON number, prose. Python dictionaries are records with a "keys" field *)
(* that lists the keys present; an exception is a result with raised set.  *)
(***************************************************************************)
EXTENDS Integers, Sequences, FiniteSets, TLC

----------------------------------------------------------------------------
(* Bounds of the model *)

\* longest reply, in chunks, handed to the parser
MaxChunks == 5
\* longest script of service outcomes, and largest max_retries, of a client call
MaxAttempts == 3
\* most CV files uploaded in one run
MaxFiles == 3

(* Program constants *)

\* process_with_retry(max_retries = 3)
DEFAULT_MAX_RETRIES == 3
\* process_with_retry(backoff_factor = 2.0)
DEFAULT_BACKOFF_FACTOR == 2
\* content[:500] in the parse failure's diagnostic
RAW_PREFIX == 500
\* config.BATCH_SIZE
BATCH_SIZE == 5

----------------------------------------------------------------------------
(* Text *)

\* the text of each token is given in the comment beside it
LabeledFence == "FENCE_JSON"   \* three backticks followed by json
Fence == "FENCE"               \* three backticks
LBrace == "LBRACE"             \* an opening brace
RBrace == "RBRACE"             \* a closing brace
FullObj == "FULL_OBJ"           \* a JSON object with skills, experience, education, overall
PartObj == "PART_OBJ"           \* a JSON object with skills and experience only
ListLit == "LIST"               \* the JSON list [1]
NumLit == "NUMBER"              \* the JSON number 5
Prose == "PROSE"                \* a paragraph of prose, no brace, no backtick
\* a chunk of three tokens: an unlabeled fenced block that holds a complete record
FencedFull == "FENCED_FULL"
\* a chunk of three tokens: a labeled fenced block cut off after its opening brace
LabeledCut == "LABELED_CUT"

Newline == "NL"                 \* the newline that joins two tokens

Tokens == {LabeledFence, Fence, LBrace, RBrace, FullObj, PartObj, ListLit, NumLit, Prose}
Chunks == Tokens \cup {FencedFull, LabeledCut}

\* the tokens of a reply given in chunks
RECURSIVE Expand(_)
Expand(chunks) ==
    IF chunks = <<>> THEN <<>>
    ELSE (IF Head(chunks) = FencedFull THEN <<Fence, FullObj, Fence>>
          ELSE IF Head(chunks) = LabeledCut THEN <<LabeledFence, LBrace, Fence>>
          ELSE <<Head(chunks)>>)
         \o Expand(Tail(chunks))

\* number of characters of a token's text
TokChars(t) ==
    CASE t = LabeledFence -> 7
      [] t = Fence -> 3
      [] t = LBrace -> 1
      [] t = RBrace -> 1
      [] t = FullObj -> 400
      [] t = PartObj -> 250
      [] t = ListLit -> 3
      [] t = NumLit -> 1
      [] t = Prose -> 300
      [] t = Newline -> 1

\* the text as runs of characters: the tokens with the newlines that join them
RECURSIVE Runs(_)
Runs(toks) ==
    IF toks = <<>> THEN <<>>
    ELSE IF Len(toks) = 1 THEN <<[tok |-> toks[1], len |-> TokChars(toks[1])]>>
    ELSE <<[tok |-> toks[1], len |-> TokChars(toks[1])], [tok |-> Newline, len |-> 1]>>
         \o Runs(Tail(toks))

RECURSIVE RunsLen(_)
RunsLen(runs) == IF runs = <<>> THEN 0 ELSE runs[1].len + RunsLen(Tail(runs))

\* runs[:n], the first n characters
RECURSIVE TakeRuns(_, _)
TakeRuns(runs, n) ==
    IF runs = <<>> \/ n <= 0 THEN <<>>
    ELSE IF runs[1].len >= n THEN <<[tok |-> runs[1].tok, len |-> n]>>
    ELSE <<runs[1]>> \o TakeRuns(Tail(runs), n - runs[1].len)

\* content[:n]
Slice(toks, n) == TakeRuns(Runs(toks), n)

SetMin(S) == CHOOSE x \in S : \A y \in S : x <= y
SetMax(S) == CHOOSE x \in S : \A y \in S : x >= y

----------------------------------------------------------------------------
(* Values *)

\* a message: its literal parts and, where it quotes a reply, the quoted runs
Msg(parts, raw) == [parts |-> parts, raw |-> raw]
NoMsg == Msg(<<>>, <<>>)

Category(score, reasoning, strengths, gaps) ==
    [score |-> score, reasoning |-> reasoning, strengths |-> strengths, gaps |-> gaps]
NoCategory == Category(0, <<>>, <<>>, <<>>)

\* a decoded JSON object: keys lists the keys present
Dict(keys, error, skills, experience, education, overall) ==
    [kind |-> "dict", keys |-> keys, error |-> error, skills |-> skills,
     experience |-> experience, education |-> education, overall |-> overall]
\* a decoded JSON value that is no object
NonDict(kind) ==
    [kind |-> kind, keys |-> {}, error |-> NoMsg, skills |-> NoCategory,
     experience |-> NoCategory, education |-> NoCategory, overall |-> NoCategory]
None == NonDict("none")

\* k in d, for a dictionary d
HasKey(d, k) == d.kind = "dict" /\ k \in d.keys

FullRecord ==
    Dict({"skills", "experience", "education", "overall"}, NoMsg,
         Category(8, <<"detailed explanation">>, <<"strength1">>, <<"gap1">>),
         Category(6, <<"detailed explanation">>, <<"strength1">>, <<"gap1">>),
         Category(10, <<"detailed explanation">>, <<"strength1">>, <<"gap1">>),
         Category(8, <<"detailed explanation">>, <<>>, <<>>))
PartRecord ==
    Dict({"skills", "experience"}, NoMsg,
         Category(8, <<"detailed explanation">>, <<"strength1">>, <<"gap1">>),
         Category(6, <<"detailed explanation">>, <<"strength1">>, <<"gap1">>),
         NoCategory, NoCategory)
EmptyDict == Dict({}, NoMsg, NoCategory, NoCategory, NoCategory, NoCategory)

\* json.loads(text): ok is FALSE where it raises
JsonLoads(toks) ==
    IF toks = <<FullObj>> THEN [ok |-> TRUE, value |-> FullRecord]
    ELSE IF toks = <<PartObj>> THEN [ok |-> TRUE, value |-> PartRecord]
    ELSE IF toks = <<LBrace, RBrace>> THEN [ok |-> TRUE, value |-> EmptyDict]
    ELSE IF toks = <<ListLit>> THEN [ok |-> TRUE, value |-> NonDict("list")]
    ELSE IF toks = <<NumLit>> THEN [ok |-> TRUE, value |-> NonDict("num")]
    ELSE [ok |-> FALSE, value |-> None]

----------------------------------------------------------------------------
(* OpenAIClient.parse_json_response *)

\* a response of generate_evaluation: keys lists the keys present
Response(content) == [keys |-> {"content", "usage"}, error |-> NoMsg, content |-> content]
ErrorResponse(msg) == [keys |-> {"error"}, error |-> msg, content |-> <<>>]

IsFence(t) == t \in {Fence, LabeledFence}
HasOpenBrace(t) == t \in {LBrace, FullObj, PartObj}
HasCloseBrace(t) == t \in {RBrace, FullObj, PartObj}

\* re.findall(r'({[\s\S]*})', content): greedy, so the one match runs from the
\* first opening brace to the last closing brace
RegexMatches(content) ==
    LET open == {i \in DOMAIN content : HasOpenBrace(content[i])}
        close == {i \in DOMAIN content : HasCloseBrace(content[i])}
    IN IF open # {} /\ close # {} /\ SetMin(open) <= SetMax(close)
       THEN <<SubSeq(content, SetMin(open), SetMax(close))>>
       ELSE <<>>

\* a strategy's outcome: found a value to return, raised, or neither
Found(v) == [found |-> TRUE, raised |-> FALSE, value |-> v]
NotFound == [found |-> FALSE, raised |-> FALSE, value |-> None]
Raised == [found |-> FALSE, raised |-> TRUE, value |-> None]

\* the loop over the regex matches: the first that decodes and has the three keys
RECURSIVE BraceScanLoop(_)
BraceScanLoop(matches) ==
    IF matches = <<>> THEN NotFound
    ELSE LET r == JsonLoads(matches[1])
         IN IF r.ok /\ HasKey(r.value, "skills") /\ HasKey(r.value, "experience")
                    /\ HasKey(r.value, "education")
            THEN Found(r.value)
            ELSE BraceScanLoop(Tail(matches))

BraceScan(content) == BraceScanLoop(RegexMatches(content))

\* "```json" in content
HasLabeledFence(content) == \E i \in DOMAIN content : content[i] = LabeledFence
\* "```" in content
HasFence(content) == \E i \in DOMAIN content : IsFence(content[i])

\* content.split("```json")[1].split("```")[0].strip()
LabeledBlock(content) ==
    LET first == SetMin({i \in DOMAIN content : content[i] = LabeledFence})
        after == SubSeq(content, first + 1, Len(content))
        stop == {i \in DOMAIN after : IsFence(after[i])}
    IN IF stop = {} THEN after ELSE SubSeq(after, 1, SetMin(stop) - 1)

\* the labeled block is decoded outside any inner try: a decoding error raises
LabeledStrategy(content) ==
    LET r == JsonLoads(LabeledBlock(content))
    IN IF r.ok THEN Found(r.value) ELSE Raised

\* re.findall(r'```(?:\w*\n)?([\s\S]*?)```', content): the text between the
\* first and second fence, the third and fourth, ...
RECURSIVE ScanBlocks(_, _, _)
ScanBlocks(content, inside, cur) ==
    IF content = <<>> THEN <<>>
    ELSE IF IsFence(Head(content))
         THEN IF inside THEN <<cur>> \o ScanBlocks(Tail(content), FALSE, <<>>)
              ELSE ScanBlocks(Tail(content), TRUE, <<>>)
         ELSE IF inside THEN ScanBlocks(Tail(content), TRUE, Append(cur, Head(content)))
              ELSE ScanBlocks(Tail(content), FALSE, <<>>)

CodeBlocks(content) == ScanBlocks(content, FALSE, <<>>)

\* the loop over the code blocks: the first that decodes
RECURSIVE CodeBlockLoop(_)
CodeBlockLoop(blocks) ==
    IF blocks = <<>> THEN NotFound
    ELSE LET r == JsonLoads(blocks[1])
         IN IF r.ok THEN Found(r.value) ELSE CodeBlockLoop(Tail(blocks))

UnlabeledStrategy(content) == CodeBlockLoop(CodeBlocks(content))

\* json.loads(content)
WholeStrategy(content) ==
    LET r == JsonLoads(content) IN IF r.ok THEN Found(r.value) ELSE NotFound

\* content[start_idx:end_idx+1] decoded, when both braces exist and end_idx > start_idx
BraceSliceStrategy(content) ==
    LET open == {i \in DOMAIN content : HasOpenBrace(content[i])}
        close == {i \in DOMAIN content : HasCloseBrace(content[i])}
    IN IF open # {} /\ close # {} /\ SetMin(open) <= SetMax(close)
       THEN LET r == JsonLoads(SubSeq(content, SetMin(open), SetMax(close)))
            IN IF r.ok THEN Found(r.value) ELSE NotFound
       ELSE NotFound

ErrorOnly(msg) == Dict({"error"}, msg, NoCategory, NoCategory, NoCategory, NoCategory)

\* the dictionary returned when no strategy decodes the reply
ParseFailure(content) ==
    Dict({"error", "skills", "experience", "education", "overall"},
         Msg(<<"Could not parse JSON from response. Raw response: ", "...">>,
             Slice(content, RAW_PREFIX)),
         Category(0, <<"Error parsing response">>, <<>>, <<>>),
         Category(0, <<"Error parsing response">>, <<>>, <<>>),
         Category(0, <<"Error parsing response">>, <<>>, <<>>),
         Category(0, <<"Error parsing response">>, <<>>, <<>>))

\* the dictionary returned by the outer except
ParseException(e) ==
    Dict({"error", "skills", "experience", "education", "overall"},
         Msg(<<"JSON parsing error: ", e>>, <<>>),
         Category(0, <<"Error: ", e>>, <<>>, <<>>),
         Category(0, <<"Error: ", e>>, <<>>, <<>>),
         Category(0, <<"Error: ", e>>, <<>>, <<>>),
         Category(0, <<"Error: ", e>>, <<>>, <<>>))

\* what a call returns: the value, the strategies it attempted in order, and the
\* place that produced the value (0: the guards, 1..5: a strategy, 6: the parse
\* failure, 7: the outer except)
Returned(v, tried, via) == [raised |-> FALSE, value |-> v, tried |-> tried, via |-> via]

\* parse_json_response without its outer except: the decoding error leaves the call
OuterExceptMissing(tried) ==
    [raised |-> TRUE, value |-> None, tried |-> tried, via |-> 7]

\* the outer except of parse_json_response
OuterExcept(tried) == Returned(ParseException("JSONDecodeError"), tried, 7)

\* the last resort: the whole reply, then the slice between the braces
LastResort(content, tried) ==
    LET w == WholeStrategy(content)
        b == BraceSliceStrategy(content)
    IN IF w.found THEN Returned(w.value, tried \o <<4>>, 4)
       ELSE IF b.found THEN Returned(b.value, tried \o <<4, 5>>, 5)
       ELSE Returned(ParseFailure(content), tried \o <<4, 5>>, 6)

ParseJsonResponse(response) ==
    IF "error" \in response.keys THEN Returned(ErrorOnly(response.error), <<>>, 0)
    ELSE LET content == IF "content" \in response.keys THEN response.content ELSE <<>>
         IN IF content = <<>>
            THEN Returned(ErrorOnly(Msg(<<"Empty response from model">>, <<>>)), <<>>, 0)
            ELSE LET s1 == BraceScan(content)
                 IN IF s1.found THEN Returned(s1.value, <<1>>, 1)
                    ELSE IF HasLabeledFence(content)
                    THEN LET s2 == LabeledStrategy(content)
                         IN IF s2.raised THEN OuterExcept(<<1, 2>>)
                            ELSE Returned(s2.value, <<1, 2>>, 2)
                    ELSE IF HasFence(content)
                    THEN LET s3 == UnlabeledStrategy(content)
                         IN IF s3.found THEN Returned(s3.value, <<1, 3>>, 3)
                            ELSE LastResort(content, <<1, 3>>)
                    ELSE LastResort(content, <<1>>)

----------------------------------------------------------------------------
(* OpenAIClient.generate_evaluation, OpenAIClient.process_with_retry *)

\* what one request to the service does: it fails with a message, or it replies
Fails(msg) == [ok |-> FALSE, msg |-> msg, reply |-> <<>>]
Replies(chunks) == [ok |-> TRUE, msg |-> "", reply |-> chunks]

\* a call that returns a value, and a call that raises e
Return(v) == [raised |-> FALSE, exc |-> "", value |-> v]
Raise(e) == [raised |-> TRUE, exc |-> e, value |-> None]

\* generate_evaluation with an except that returns a fixed text in place of str(e)
GenerateEvaluationFixedText(outcome) ==
    IF outcome.ok THEN Return(Response(Expand(outcome.reply)))
    ELSE Return(ErrorResponse(Msg(<<"request failed">>, <<>>)))

\* one request: the reply as a response, and any exception caught and returned
\* as {"error": str(e)}
GenerateEvaluation(outcome) ==
    IF outcome.ok THEN Return(Response(Expand(outcome.reply)))
    ELSE Return(ErrorResponse(Msg(<<outcome.msg>>, <<>>)))

\* the outcome of the k-th request of a call: the script's k-th entry, its last
\* entry repeated once the script is used up
OutcomeAt(script, k) == IF k <= Len(script) THEN script[k] ELSE script[Len(script)]

RECURSIVE Pow(_, _)
Pow(b, k) == IF k = 0 THEN 1 ELSE b * Pow(b, k - 1)

\* what process_with_retry hands back: returned is FALSE where the loop ends
\* without a return statement (the caller gets None); calls counts the requests
\* made and sleeps lists the time.sleep durations in order
Handed(returned, v, calls, sleeps) ==
    [raised |-> FALSE, returned |-> returned, value |-> v, calls |-> calls, sleeps |-> sleeps]

\* the while loop of process_with_retry
RECURSIVE RetryLoop(_, _, _, _, _, _)
RetryLoop(script, max_retries, backoff_factor, retry, calls, sleeps) ==
    IF ~(retry < max_retries) THEN Handed(FALSE, ErrorResponse(NoMsg), calls, sleeps)
    ELSE LET g == GenerateEvaluation(OutcomeAt(script, calls + 1))
         IN IF ~g.raised THEN Handed(TRUE, g.value, calls + 1, sleeps)
            ELSE IF retry + 1 >= max_retries
                 THEN Handed(TRUE, ErrorResponse(Msg(<<g.exc>>, <<>>)), calls + 1, sleeps)
                 ELSE RetryLoop(script, max_retries, backoff_factor, retry + 1, calls + 1,
                                Append(sleeps, Pow(backoff_factor, retry + 1)))

ProcessWithRetry(script, max_retries, backoff_factor) ==
    RetryLoop(script, max_retries, backoff_factor, 0, 0, <<>>)

----------------------------------------------------------------------------
(* RankingEngine.format_prompt, calculate_weighted_score, evaluate_cv *)

\* a template for str.format: literal text and replacement fields
Lit(text) == [field |-> FALSE, name |-> text]
Field(name) == [field |-> TRUE, name |-> name]

\* prompts.base_prompts.EVALUATION_PROMPT_TEMPLATE: the two named fields, and
\* the JSON example of the output format, whose braces are not doubled, so that
\* str.format reads the example's opening brace as the start of a third field,
\* whose name is the text up to the first colon
EVALUATION_PROMPT_TEMPLATE ==
    << Lit("# Job Description"), Field("job_description"),
       Lit("# CV to Evaluate"), Field("cv_text"),
       Lit("# Evaluation Criteria"), Lit("# Output Format"),
       Field("newline, two spaces, skills in double quotes") >>

\* str.format(**kwargs): KeyError on the first field kwargs does not name
RECURSIVE Format(_, _)
Format(template, kwargs) ==
    IF template = <<>> THEN [raised |-> FALSE, exc |-> "", value |-> <<>>]
    ELSE LET item == Head(template)
             rest == Format(Tail(template), kwargs)
         IN IF item.field /\ item.name \notin DOMAIN kwargs
            THEN [raised |-> TRUE, exc |-> "KeyError", value |-> <<>>]
            ELSE IF rest.raised THEN rest
            ELSE [raised |-> FALSE, exc |-> "",
                  value |-> <<IF item.field THEN kwargs[item.name] ELSE item.name>> \o rest.value]

\* a CV as process_cv returns it: keys lists the keys present
CvData(keys, filename, error, full_text) ==
    [keys |-> keys, filename |-> filename, error |-> error, full_text |-> full_text]

FormatPrompt(job_description, cv_data) ==
    Format(EVALUATION_PROMPT_TEMPLATE,
           [k \in {"job_description", "cv_text"} |->
               IF k = "job_description" THEN job_description
               ELSE IF "full_text" \in cv_data.keys THEN cv_data.full_text ELSE ""])

\* a number as a fraction num/den, den > 0
\* A Python float is an IEEE double: a sign, a mantissa of at most 53 bits and a
\* power of two. The mantissa is written in digits of 15 bits, lowest first, so
\* that no number outgrows the integers of the checker. Exponents stay far from
\* the range where doubles overflow or go subnormal.
MantissaBits == 53
DigitBits == 15
Radix == 2 ^ DigitBits

\* a natural number as digits, lowest first, without leading zeros
RECURSIVE Trim(_)
Trim(a) == IF a = <<>> \/ a[Len(a)] # 0 THEN a ELSE Trim(SubSeq(a, 1, Len(a) - 1))

RECURSIVE Digits(_)
Digits(n) == IF n = 0 THEN <<>> ELSE <<n % Radix>> \o Digits(n \div Radix)

Digit(a, i) == IF i <= Len(a) THEN a[i] ELSE 0
Rest(a) == IF a = <<>> THEN <<>> ELSE Tail(a)

\* a + b + c, c a carry of 0 or 1
RECURSIVE AddDigits(_, _, _)
AddDigits(a, b, c) ==
    IF a = <<>> /\ b = <<>> THEN (IF c = 0 THEN <<>> ELSE <<c>>)
    ELSE LET sum == Digit(a, 1) + Digit(b, 1) + c
         IN <<sum % Radix>> \o AddDigits(Rest(a), Rest(b), sum \div Radix)

\* a - b - c where a >= b + c, before trimming
RECURSIVE SubLoop(_, _, _)
SubLoop(a, b, c) ==
    IF a = <<>> THEN <<>>
    ELSE LET d == Digit(a, 1) - Digit(b, 1) - c
         IN <<(d + Radix) % Radix>> \o SubLoop(Rest(a), Rest(b), IF d < 0 THEN 1 ELSE 0)
SubDigits(a, b) == Trim(SubLoop(a, b, 0))

RECURSIVE LessFrom(_, _, _)
LessFrom(a, b, i) ==
    IF i = 0 THEN FALSE
    ELSE IF a[i] # b[i] THEN a[i] < b[i]
    ELSE LessFrom(a, b, i - 1)
\* a < b
LessDigits(a, b) == IF Len(a) # Len(b) THEN Len(a) < Len(b) ELSE LessFrom(a, b, Len(a))

\* a * n + c for a digit n and a carry c
RECURSIVE MulDigit(_, _, _)
MulDigit(a, n, c) ==
    IF a = <<>> THEN (IF c = 0 THEN <<>> ELSE <<c>>)
    ELSE LET p == a[1] * n + c
         IN <<p % Radix>> \o MulDigit(Tail(a), n, p \div Radix)

\* a * b
RECURSIVE MulDigits(_, _)
MulDigits(a, b) ==
    IF a = <<>> \/ b = <<>> THEN <<>>
    ELSE LET hi == MulDigits(a, Tail(b))
         IN AddDigits(Trim(MulDigit(a, b[1], 0)), IF hi = <<>> THEN <<>> ELSE <<0>> \o hi, 0)

\* a * 2^k
Shl(a, k) ==
    IF a = <<>> THEN <<>>
    ELSE [i \in 1..(k \div DigitBits) |-> 0] \o MulDigit(a, 2 ^ (k % DigitBits), 0)

\* the largest digit q in lo..hi with b * q <= a, where b * lo <= a
RECURSIVE QuotientDigit(_, _, _, _)
QuotientDigit(a, b, lo, hi) ==
    IF lo = hi THEN lo
    ELSE LET mid == (lo + hi + 1) \div 2
         IN IF LessDigits(a, Trim(MulDigit(b, mid, 0)))
            THEN QuotientDigit(a, b, lo, mid - 1)
            ELSE QuotientDigit(a, b, mid, hi)

\* quotient and remainder of a by b, b > 0
RECURSIVE DivDigits(_, _)
DivDigits(a, b) ==
    IF a = <<>> THEN [quo |-> <<>>, rem |-> <<>>]
    ELSE LET hi == DivDigits(Tail(a), b)
             r == Trim(<<a[1]>> \o hi.rem)
             q == QuotientDigit(r, b, 0, Radix - 1)
         IN [quo |-> Trim(<<q>> \o hi.quo), rem |-> SubDigits(r, Trim(MulDigit(b, q, 0)))]

\* the number of bits of a digit, and of a number
RECURSIVE DigitLen(_)
DigitLen(n) == IF n = 0 THEN 0 ELSE 1 + DigitLen(n \div 2)
BitLen(a) == IF a = <<>> THEN 0 ELSE DigitBits * (Len(a) - 1) + DigitLen(a[Len(a)])

\* the number of zero bits at the low end of a nonzero number
RECURSIVE DigitLowZeros(_)
DigitLowZeros(n) == IF n % 2 = 1 THEN 0 ELSE 1 + DigitLowZeros(n \div 2)
RECURSIVE LowZeros(_)
LowZeros(a) ==
    IF a[1] = 0 THEN DigitBits + LowZeros(Tail(a)) ELSE DigitLowZeros(a[1])

\* floor(a / 2^k)
Shr(a, k) ==
    IF k \div DigitBits >= Len(a) THEN <<>>
    ELSE DivDigits(SubSeq(a, k \div DigitBits + 1, Len(a)), <<2 ^ (k % DigitBits)>>).quo

\* the number (-1)^neg * man * 2^exp with an odd mantissa, so that equal numbers
\* are equal records; zero has one form (0.0 == -0.0 in Python)
Dyadic(neg, man, exp) ==
    LET m == Trim(man)
    IN IF m = <<>> THEN [neg |-> FALSE, man |-> <<>>, exp |-> 0]
       ELSE [neg |-> neg, man |-> Shr(m, LowZeros(m)), exp |-> exp + LowZeros(m)]

Zero == Dyadic(FALSE, <<>>, 0)
Neg(x) == Dyadic(~x.neg, x.man, x.exp)

\* the exact product and sum of two such numbers
ExactMul(x, y) == Dyadic(x.neg # y.neg, MulDigits(x.man, y.man), x.exp + y.exp)
ExactAdd(x, y) ==
    LET e == IF x.exp < y.exp THEN x.exp ELSE y.exp
        mx == Shl(x.man, x.exp - e)
        my == Shl(y.man, y.exp - e)
    IN IF x.neg = y.neg THEN Dyadic(x.neg, AddDigits(mx, my, 0), e)
       ELSE IF LessDigits(mx, my) THEN Dyadic(y.neg, SubDigits(my, mx), e)
       ELSE Dyadic(x.neg, SubDigits(mx, my), e)

\* the double nearest to x, ties to the even mantissa
RoundToDouble(x) ==
    LET d == BitLen(x.man) - MantissaBits
        kept == Shr(x.man, d)
        rest == SubDigits(x.man, Shl(kept, d))
        half == Shl(<<1>>, d - 1)
        up == LessDigits(half, rest) \/ (rest = half /\ kept[1] % 2 = 1)
    IN IF d <= 0 THEN x
       ELSE Dyadic(x.neg, IF up THEN AddDigits(kept, <<1>>, 0) ELSE kept, x.exp + d)

\* float(n) of a Python int, x * y, x + y and x / y (y nonzero) of two floats
FromInt(n) == Dyadic(n < 0, Digits(IF n < 0 THEN 0 - n ELSE n), 0)
FloatMul(x, y) == RoundToDouble(ExactMul(x, y))
FloatAdd(x, y) == RoundToDouble(ExactAdd(x, y))
FloatDiv(x, y) ==
    LET k == MantissaBits + 3 + BitLen(y.man)
        d == DivDigits(Shl(x.man, k), y.man)
        sticky == IF d.rem = <<>> THEN 0 ELSE 1
    IN RoundToDouble(Dyadic(x.neg # y.neg,
                            AddDigits(Shl(d.quo, 1), <<sticky>>, 0),
                            x.exp - y.exp - k - 1))

\* the float a decimal literal such as 0.4 denotes: the double nearest to p / q
Decimal(p, q) == FloatDiv(FromInt(p), FromInt(q))

\* x < y and x == y
FloatLess(x, y) == ExactAdd(x, Neg(y)).neg
FloatEq(x, y) == x = y

\* evaluation.get(k, {}).get("score", 0)
CategoryScore(evaluation, k) ==
    IF k \in evaluation.keys THEN FromInt(evaluation[k].score) ELSE Zero

\* a category entry that is no JSON object (a string, a number, null), and an
\* entry whose score is no number (a string, null): score_type names its type
NonRecord(kind) == [kind |-> kind]
NonNumberScored(score_type) ==
    [score |-> score_type, score_type |-> score_type, reasoning |-> <<"detailed explanation">>,
     strengths |-> <<"strength1">>, gaps |-> <<"gap1">>]
IsRecord(entry) == "kind" \notin DOMAIN entry
IsNumber(entry) == "score_type" \notin DOMAIN entry

\* one term of the sum raises: .get on an entry that is no dictionary
\* (AttributeError), self.weights[k] without the key (KeyError), or the product
\* of a score that is no number and a float weight (TypeError)
TermRaises(evaluation, weights, k) ==
    \/ k \in evaluation.keys /\ ~IsRecord(evaluation[k])
    \/ k \notin DOMAIN weights
    \/ k \in evaluation.keys /\ ~IsNumber(evaluation[k])

\* calculate_weighted_score with the result held within the 0-10 scale
CalculateWeightedScoreClamped(evaluation, weights) ==
    LET sum == FloatAdd(FloatAdd(
                   FloatMul(FromInt(evaluation.skills.score), weights.skills),
                   FloatMul(FromInt(evaluation.experience.score), weights.experience)),
                   FloatMul(FromInt(evaluation.education.score), weights.education))
    IN IF FloatLess(FromInt(10), sum) THEN FromInt(10)
       ELSE IF FloatLess(sum, Zero) THEN Zero
       ELSE sum

\* a calculate_weighted_score that counts a term that raises as 0 and adds the
\* others
CalculateWeightedScoreSkipping(evaluation, weights) ==
    LET Term(k) == IF evaluation.kind # "dict" \/ TermRaises(evaluation, weights, k) THEN Zero
                   ELSE FloatMul(CategoryScore(evaluation, k), weights[k])
    IN FloatAdd(FloatAdd(Term("skills"), Term("experience")), Term("education"))

\* the weighted sum; evaluation.get raises on a value that is no dictionary, a
\* term may raise, and the except returns 0.0
CalculateWeightedScore(evaluation, weights) ==
    IF evaluation.kind # "dict" THEN Zero
    ELSE IF \E k \in {"skills", "experience", "education"} : TermRaises(evaluation, weights, k)
    THEN Zero
    ELSE LET skills_score == FloatMul(CategoryScore(evaluation, "skills"), weights.skills)
             experience_score ==
                 FloatMul(CategoryScore(evaluation, "experience"), weights.experience)
             education_score ==
                 FloatMul(CategoryScore(evaluation, "education"), weights.education)
         IN FloatAdd(FloatAdd(skills_score, experience_score), education_score)

\* a result of evaluate_cv: keys lists the keys present
Result(keys, filename, error, score, evaluation, warning, raw_response) ==
    [keys |-> keys, filename |-> filename, error |-> error, score |-> score,
     evaluation |-> evaluation, warning |-> warning, raw_response |-> raw_response,
     rank |-> 0]

\* a failed result that keeps an empty evaluation and a warning
FailedResultWithEvaluation(filename, error) ==
    Result({"filename", "error", "score", "evaluation", "warning"}, filename, error, Zero,
           EmptyDict, error, <<>>)

FailedResult(filename, error) ==
    Result({"filename", "error", "score", "evaluation"}, filename, error, Zero, None, NoMsg, <<>>)

\* evaluate_cv without its outer except: the exception leaves the call
EvaluateExceptMissing(filename, e) == Raise(e)

\* the outer except of evaluate_cv
EvaluateExcept(filename, e) ==
    Return(FailedResult(filename, Msg(<<"Error evaluating CV ", "filename", ": ", e>>, <<>>)))

\* an evaluate_cv that leaves the score of a cleanly parsed record at 0
EvaluateResponseUnscored(filename, handed, weights) ==
    LET response == handed.value
        raw_response == IF "content" \in response.keys THEN response.content ELSE <<>>
        evaluation == ParseJsonResponse(response).value
    IN IF ~handed.returned THEN EvaluateExcept(filename, "TypeError")
       ELSE IF "error" \in response.keys
       THEN Return(Result({"filename", "error", "score", "evaluation", "raw_response"},
                          filename,
                          Msg(<<"API error: ">> \o response.error.parts, response.error.raw),
                          Zero, None, NoMsg, raw_response))
       ELSE IF evaluation.kind \notin {"dict", "list"} THEN EvaluateExcept(filename, "TypeError")
       ELSE IF HasKey(evaluation, "error") /\ HasKey(evaluation, "skills")
       THEN LET evaluation_copy == [evaluation EXCEPT !.keys = @ \ {"error"}, !.error = NoMsg]
            IN Return(Result({"filename", "score", "evaluation", "warning", "raw_response"},
                             filename, NoMsg,
                             CalculateWeightedScore(evaluation_copy, weights),
                             evaluation_copy, evaluation.error, raw_response))
       ELSE IF HasKey(evaluation, "error")
       THEN Return(Result({"filename", "error", "score", "evaluation", "raw_response"},
                          filename,
                          Msg(<<"Error parsing API response: ">> \o evaluation.error.parts,
                              evaluation.error.raw),
                          Zero, None, NoMsg, raw_response))
       ELSE Return(Result({"filename", "score", "evaluation", "raw_response"}, filename,
                          NoMsg, Zero, evaluation, NoMsg, raw_response))

\* evaluate_cv from the check for API errors on, given what process_with_retry
\* handed back; "error" in x raises TypeError where x is None or a number
EvaluateResponse(filename, handed, weights) ==
    LET response == handed.value
        raw_response == IF "content" \in response.keys THEN response.content ELSE <<>>
        evaluation == ParseJsonResponse(response).value
    IN IF ~handed.returned THEN EvaluateExcept(filename, "TypeError")
       ELSE IF "error" \in response.keys
       THEN Return(Result({"filename", "error", "score", "evaluation", "raw_response"},
                          filename,
                          Msg(<<"API error: ">> \o response.error.parts, response.error.raw),
                          Zero, None, NoMsg, raw_response))
       ELSE IF evaluation.kind \notin {"dict", "list"} THEN EvaluateExcept(filename, "TypeError")
       ELSE IF HasKey(evaluation, "error") /\ HasKey(evaluation, "skills")
       THEN LET evaluation_copy == [evaluation EXCEPT !.keys = @ \ {"error"}, !.error = NoMsg]
            IN Return(Result({"filename", "score", "evaluation", "warning", "raw_response"},
                             filename, NoMsg,
                             CalculateWeightedScore(evaluation_copy, weights),
                             evaluation_copy, evaluation.error, raw_response))
       ELSE IF HasKey(evaluation, "error")
       THEN Return(Result({"filename", "error", "score", "evaluation", "raw_response"},
                          filename,
                          Msg(<<"Error parsing API response: ">> \o evaluation.error.parts,
                              evaluation.error.raw),
                          Zero, None, NoMsg, raw_response))
       ELSE Return(Result({"filename", "score", "evaluation", "raw_response"}, filename,
                          NoMsg, CalculateWeightedScore(evaluation, weights), evaluation,
                          NoMsg, raw_response))

\* an evaluate_cv without its two early returns: every CV goes on to the prompt
EvaluateCvUnchecked(job_description, cv_data, script, weights) ==
    LET filename == IF "filename" \in cv_data.keys THEN cv_data.filename ELSE 0
        user_prompt == FormatPrompt(job_description, cv_data)
    IN IF user_prompt.raised THEN EvaluateExcept(filename, user_prompt.exc)
       ELSE EvaluateResponse(filename,
                ProcessWithRetry(script, DEFAULT_MAX_RETRIES, DEFAULT_BACKOFF_FACTOR), weights)

\* evaluate_cv; script is what the service does on the requests made for this CV.
\* process_cv gives every CV a filename, so the default "Unknown" is never used
\* (written 0 here, file names being numbers)
EvaluateCv(job_description, cv_data, script, weights) ==
    LET filename == IF "filename" \in cv_data.keys THEN cv_data.filename ELSE 0
        user_prompt == FormatPrompt(job_description, cv_data)
    IN IF "error" \in cv_data.keys THEN Return(FailedResult(filename, cv_data.error))
       ELSE IF "full_text" \notin cv_data.keys \/ cv_data.full_text = ""
       THEN Return(FailedResult(filename,
                                Msg(<<"No CV text available for evaluation">>, <<>>)))
       ELSE IF user_prompt.raised THEN EvaluateExcept(filename, user_prompt.exc)
       ELSE EvaluateResponse(filename,
                ProcessWithRetry(script, DEFAULT_MAX_RETRIES, DEFAULT_BACKOFF_FACTOR), weights)

\* the requests evaluate_cv makes for a CV: none where it returns before the
\* prompt or the prompt raises, else those of process_with_retry
RequestsMade(job_description, cv_data, script) ==
    IF "error" \in cv_data.keys \/ "full_text" \notin cv_data.keys \/ cv_data.full_text = ""
    THEN 0
    ELSE IF FormatPrompt(job_description, cv_data).raised THEN 0
    ELSE ProcessWithRetry(script, DEFAULT_MAX_RETRIES, DEFAULT_BACKOFF_FACTOR).calls

----------------------------------------------------------------------------
(* CVProcessor.process_cv *)

\* what a file on disk is
FileKinds == {"missing", "unreadable", "blank", "control", "text"}

\* os.path.basename(file_path)
Basename(file_path) == file_path.name

\* extract_text: raises on an unsupported or corrupt file
ExtractText(kind) ==
    IF kind = "unreadable" THEN Raise("Exception")
    ELSE Return(IF kind = "blank" THEN "   " ELSE IF kind = "control" THEN "CONTROL_CHARS"
                ELSE "cv text")

\* preprocess_cv_text: whitespace collapsed, non-printable characters removed
PreprocessCvText(text) ==
    IF text = "   " THEN Raise("ValueError")
    ELSE Return(IF text = "CONTROL_CHARS" THEN "" ELSE text)

ProcessCv(file_path, kind) ==
    LET text == ExtractText(kind)
        processed_text == PreprocessCvText(text.value)
    IN IF kind = "missing"
       THEN CvData({"error", "filename"}, Basename(file_path),
                   Msg(<<"File does not exist: ", "file_path">>, <<>>), "")
       ELSE IF text.raised
       THEN CvData({"error", "filename"}, Basename(file_path),
                   Msg(<<"Error processing CV ", "file_path", ": ", text.exc>>, <<>>), "")
       ELSE IF text.value = "   "
       THEN CvData({"error", "filename"}, Basename(file_path),
                   Msg(<<"No text could be extracted from ", "file_path">>, <<>>), "")
       ELSE IF processed_text.raised
       THEN CvData({"error", "filename"}, Basename(file_path),
                   Msg(<<"Error processing CV ", "file_path", ": ", processed_text.exc>>, <<>>), "")
       ELSE CvData({"filename", "full_text", "sections"}, Basename(file_path), NoMsg,
                   processed_text.value)

----------------------------------------------------------------------------
(* RankingEngine.rank_cvs *)

\* an insertion that puts a result before the results of equal score
RECURSIVE InsertDescBeforeTies(_, _)
InsertDescBeforeTies(sorted, r) ==
    IF sorted = <<>> THEN <<r>>
    ELSE IF ~FloatLess(r.score, Head(sorted).score) THEN <<r>> \o sorted
    ELSE <<Head(sorted)>> \o InsertDescBeforeTies(Tail(sorted), r)

\* sorted(all_results, key=lambda x: x["score"], reverse=True): stable, so of two
\* results with equal scores the one that came first stays first
RECURSIVE InsertDesc(_, _)
InsertDesc(sorted, r) ==
    IF sorted = <<>> THEN <<r>>
    ELSE IF FloatLess(Head(sorted).score, r.score) THEN <<r>> \o sorted
    ELSE <<Head(sorted)>> \o InsertDesc(Tail(sorted), r)

\* a sort that first drops the results that carry an error
RECURSIVE SortedDescWithoutFailed(_)
SortedDescWithoutFailed(results) ==
    IF results = <<>> THEN <<>>
    ELSE IF "error" \in results[Len(results)].keys
         THEN SortedDescWithoutFailed(SubSeq(results, 1, Len(results) - 1))
         ELSE InsertDesc(SortedDescWithoutFailed(SubSeq(results, 1, Len(results) - 1)),
                         results[Len(results)])

\* a sort without reverse=True: ascending, ties in input order
RECURSIVE InsertAsc(_, _)
InsertAsc(sorted, r) ==
    IF sorted = <<>> THEN <<r>>
    ELSE IF FloatLess(r.score, Head(sorted).score) THEN <<r>> \o sorted
    ELSE <<Head(sorted)>> \o InsertAsc(Tail(sorted), r)
RECURSIVE SortedAsc(_)
SortedAsc(results) ==
    IF results = <<>> THEN <<>>
    ELSE InsertAsc(SortedAsc(SubSeq(results, 1, Len(results) - 1)), results[Len(results)])

RECURSIVE SortedDesc(_)
SortedDesc(results) ==
    IF results = <<>> THEN <<>>
    ELSE InsertDesc(SortedDesc(SubSeq(results, 1, Len(results) - 1)), results[Len(results)])

\* ranks that tied results share: one more than the number of better results
WithSharedRanks(results) ==
    [i \in DOMAIN results |->
        [results[i] EXCEPT
            !.rank = 1 + Cardinality({j \in DOMAIN results :
                                         FloatLess(results[i].score, results[j].score)}),
            !.keys = @ \cup {"rank"}]]

\* for i, result in enumerate(ranked_results): result["rank"] = i + 1
WithRanks(results) ==
    [i \in DOMAIN results |-> [results[i] EXCEPT !.rank = i, !.keys = @ \cup {"rank"}]]

\* a slice that takes one CV more than the batch size
BatchSliceOverlapping(cv_list, i, size) ==
    SubSeq(cv_list, i + 1, IF i + size + 1 < Len(cv_list) THEN i + size + 1 ELSE Len(cv_list))

\* cv_list[i:i+BATCH_SIZE], i counted from 0
BatchSlice(cv_list, i, size) ==
    SubSeq(cv_list, i + 1, IF i + size < Len(cv_list) THEN i + size ELSE Len(cv_list))

----------------------------------------------------------------------------
(* RankingEngine.generate_ranking_report *)

\* a count that takes the results with a warning for failed ones
CountSuccessfulWithoutWarnings(results) ==
    Cardinality({i \in DOMAIN results :
                    "error" \notin results[i].keys /\ "warning" \notin results[i].keys})

\* sum(1 for r in results if "error" not in r)
CountSuccessful(results) == Cardinality({i \in DOMAIN results : "error" \notin results[i].keys})

\* sum(1 for r in results if "error" in r)
CountFailed(results) == Cardinality({i \in DOMAIN results : "error" \in results[i].keys})

\* sum(r.get("score", 0) for r in results): the scores added one by one, in list
\* order, to the start value 0
RECURSIVE SumScores(_)
SumScores(results) ==
    IF results = <<>> THEN Zero
    ELSE LET r == results[Len(results)]
         IN FloatAdd(SumScores(SubSeq(results, 1, Len(results) - 1)),
                     IF "score" \in r.keys THEN r.score ELSE Zero)

\* an average over the results without an error only
AverageOfSuccessful(results) ==
    FloatDiv(SumScores(results),
             FromInt(IF CountSuccessful(results) > 1 THEN CountSuccessful(results) ELSE 1))

\* sum(...) / max(len(results), 1)
AverageScore(results) ==
    FloatDiv(SumScores(results), FromInt(IF Len(results) > 1 THEN Len(results) ELSE 1))

\* [r for r in results[:5] if "error" not in r]
TopCandidates(results) ==
    SelectSeq(SubSeq(results, 1, IF Len(results) < 5 THEN Len(results) ELSE 5),
              LAMBDA r : "error" \notin r.keys)

GenerateRankingReport(results) ==
    [total_cvs |-> Len(results),
     successful_evaluations |-> CountSuccessful(results),
     failed_evaluations |-> CountFailed(results),
     average_score |-> AverageScore(results),
     top_candidates |-> TopCandidates(results),
     all_rankings |-> results]

----------------------------------------------------------------------------
(* ui/results_view.py: display_ranking_table and export_results *)

\* a cell of a row: a number, or the dash shown in its place
Num(n) == [dash |-> FALSE, n |-> n]
Dash == [dash |-> TRUE, n |-> 0]

RECURSIVE DigitsToInt(_)
DigitsToInt(a) == IF a = <<>> THEN 0 ELSE a[1] + Radix * DigitsToInt(Tail(a))

\* f"{x:.2f}": the decimal with two places nearest to the float, ties to the
\* even digit, given in hundredths
Fixed2(x) ==
    LET y == ExactMul(x, FromInt(100))
        d == 0 - y.exp
        kept == Shr(y.man, d)
        rest == SubDigits(y.man, Shl(kept, d))
        half == Shl(<<1>>, d - 1)
        up == LessDigits(half, rest) \/ (rest = half /\ Digit(kept, 1) % 2 = 1)
        magnitude == IF y.exp >= 0 THEN DigitsToInt(Shl(y.man, y.exp))
                     ELSE DigitsToInt(IF up THEN AddDigits(kept, <<1>>, 0) ELSE kept)
    IN IF y.neg THEN 0 - magnitude ELSE magnitude

\* eval_data.get(k, {}).get("score", default)
ScoreCell(eval_data, k, default) ==
    IF k \in eval_data.keys THEN Num(eval_data[k].score) ELSE default

\* r.get("rank", "-")
RankCell(r) == IF "rank" \in r.keys THEN Num(r.rank) ELSE Dash

\* a result whose row cannot be made: eval_data.get raises AttributeError where
\* the evaluation is no dictionary
RowRaises(r) == "error" \notin r.keys /\ r.evaluation.kind # "dict"

\* the row display_ranking_table makes of a result
TableRow(r) ==
    IF "error" \in r.keys
    THEN [Rank |-> RankCell(r), Filename |-> r.filename, Overall_Score |-> Dash,
          Skills |-> Dash, Experience |-> Dash, Education |-> Dash, Status |-> "Failed"]
    ELSE [Rank |-> RankCell(r), Filename |-> r.filename,
          Overall_Score |-> Num(Fixed2(r.score)),
          Skills |-> ScoreCell(r.evaluation, "skills", Dash),
          Experience |-> ScoreCell(r.evaluation, "experience", Dash),
          Education |-> ScoreCell(r.evaluation, "education", Dash),
          Status |-> "Success"]

\* display_ranking_table: a warning and no table for an empty list
DisplayRankingTable(results) ==
    IF results = <<>>
    THEN [raised |-> FALSE, warning |-> "No evaluation results to display.", rows |-> <<>>]
    ELSE IF \E i \in DOMAIN results : RowRaises(results[i])
    THEN [raised |-> TRUE, warning |-> "", rows |-> <<>>]
    ELSE [raised |-> FALSE, warning |-> "", rows |-> [i \in DOMAIN results |-> TableRow(results[i])]]

\* the row export_results makes of a result for the CSV file
ExportRow(r) ==
    IF "error" \in r.keys
    THEN [Rank |-> RankCell(r), Filename |-> r.filename, Weighted_Score |-> Zero,
          Skills_Score |-> Num(0), Experience_Score |-> Num(0), Education_Score |-> Num(0),
          Overall_Score |-> Num(0), Status |-> "Failed", Error |-> r.error]
    ELSE [Rank |-> RankCell(r), Filename |-> r.filename, Weighted_Score |-> r.score,
          Skills_Score |-> ScoreCell(r.evaluation, "skills", Num(0)),
          Experience_Score |-> ScoreCell(r.evaluation, "experience", Num(0)),
          Education_Score |-> ScoreCell(r.evaluation, "education", Num(0)),
          Overall_Score |-> ScoreCell(r.evaluation, "overall", Num(0)),
          Status |-> "Success", Error |-> NoMsg]

\* an entry of the JSON download
JsonEntry(r) ==
    [rank |-> IF "rank" \in r.keys THEN r.rank ELSE 0, filename |-> r.filename,
     score |-> r.score, evaluation |-> r.evaluation,
     error |-> IF "error" \in r.keys THEN r.error ELSE NoMsg]

\* export_results: the rows of the CSV download and the entries of the JSON one
ExportResults(results) ==
    IF \E i \in DOMAIN results : RowRaises(results[i])
    THEN [raised |-> TRUE, rows |-> <<>>, json |-> <<>>]
    ELSE [raised |-> FALSE, rows |-> [i \in DOMAIN results |-> ExportRow(results[i])],
          json |-> [i \in DOMAIN results |-> JsonEntry(results[i])]]

----------------------------------------------------------------------------
(* State *)

VARIABLES
    pc,               \* where the run, or the call under check, stands
    files,            \* what each uploaded file is, by position in cv_paths
    cv_paths,         \* the temporary files of the upload, in upload order
    job_description,
    batch_size,       \* config.BATCH_SIZE as rank_cvs reads it
    weights,          \* ranking_engine.weights
    cv_data_list,     \* main's list of processed CVs
    batch_start,      \* rank_cvs' loop variable i
    batch,            \* the batch given to batch_process
    batch_results,    \* batch_process' results
    all_results,      \* rank_cvs' all_results
    ranked_results,   \* rank_cvs' ranked_results
    service,          \* what the service does on the requests for the CV evaluated last
    requests,         \* how many requests evaluate_cv made for the CV evaluated last
    ranking_results,  \* st.session_state.ranking_results
    arg,              \* the argument of the call under check
    ret               \* what the call under check returned

vars == <<pc, files, cv_paths, job_description, batch_size, weights, cv_data_list, batch_start, batch,
          batch_results, all_results, ranked_results, service, requests, ranking_results, arg, ret>>

runVars == <<files, cv_paths, job_description, batch_size, weights, cv_data_list, batch_start, batch,
             batch_results, all_results, ranked_results, service, requests, ranking_results>>

\* sequences over S of length at most n
SeqUpTo(S, n) == UNION {[1..k -> S] : k \in 0..n}

\* config.WEIGHTS
WEIGHTS == [skills |-> Decimal(4, 10), experience |-> Decimal(4, 10), education |-> Decimal(2, 10)]

\* create_sidebar: the three slider values, multiples of 0.05 given in twentieths,
\* divided by their total where it is positive
SidebarWeights(skills, experience, education) ==
    LET skills_weight == Decimal(skills, 20)
        experience_weight == Decimal(experience, 20)
        education_weight == Decimal(education, 20)
        total == FloatAdd(FloatAdd(skills_weight, experience_weight), education_weight)
    IN IF FloatLess(Zero, total)
       THEN [skills |-> FloatDiv(skills_weight, total),
             experience |-> FloatDiv(experience_weight, total),
             education |-> FloatDiv(education_weight, total)]
       ELSE [skills |-> skills_weight, experience |-> experience_weight,
             education |-> education_weight]

\* the slider positions a run is started with, as twentieths
SliderSettings == {<<8, 8, 4>>, <<20, 0, 0>>}

\* the messages a failing request carries
FailureMessages == {"timeout", "rate limit"}

\* the replies the service gives during a run, one of each kind the parser and
\* evaluate_cv tell apart: empty, prose, a list, a number, a record without
\* education, a complete record bare, in a fenced block and in a labeled block,
\* and a labeled block that does not decode
RunReplies ==
    { <<>>, <<Prose>>, <<ListLit>>, <<NumLit>>, <<PartObj>>, <<FullObj>>, <<FencedFull>>,
      <<LabeledFence, FullObj, Fence>>, <<LabeledFence, Prose, Fence>> }

\* what the service may do on a request during a run
RunOutcomes == {Fails(m) : m \in FailureMessages} \cup {Replies(c) : c \in RunReplies}

\* tempfile.NamedTemporaryFile gives every upload a fresh name in one directory
TempFile(n) == [dir |-> "tmp", name |-> n]

RunIdle == [keys |-> {}]

----------------------------------------------------------------------------
(* A run of the app: main, from the click on "Rank CVs" *)

Init ==
    /\ pc = "idle"
    /\ \E n \in 1..MaxFiles :
          /\ cv_paths = [i \in 1..n |-> TempFile(i)]
          /\ files \in [1..n -> FileKinds]
    /\ job_description = "job description"
    /\ batch_size = BATCH_SIZE
    /\ weights = WEIGHTS
    /\ cv_data_list = <<>>
    /\ batch_start = 0
    /\ batch = <<>>
    /\ batch_results = <<>>
    /\ all_results = <<>>
    /\ ranked_results = <<>>
    /\ service = <<>>
    /\ requests = 0
    /\ ranking_results = <<>>
    /\ arg = RunIdle
    /\ ret = RunIdle

\* the button: the engine is created and given the sidebar's weights
ClickRank ==
    /\ pc = "idle"
    /\ \E sl \in SliderSettings : weights' = SidebarWeights(sl[1], sl[2], sl[3])
    /\ pc' = "process"
    /\ UNCHANGED <<files, cv_paths, job_description, batch_size, cv_data_list, batch_start, batch,
                   batch_results, all_results, ranked_results, service, requests, ranking_results,
                   arg, ret>>

\* one turn of main's loop over cv_paths
ProcessNextCv ==
    /\ pc = "process"
    /\ Len(cv_data_list) < Len(cv_paths)
    /\ LET i == Len(cv_data_list) + 1
       IN cv_data_list' = Append(cv_data_list, ProcessCv(cv_paths[i], files[i]))
    /\ UNCHANGED <<pc, files, cv_paths, job_description, batch_size, weights, batch_start, batch,
                   batch_results, all_results, ranked_results, service, requests, ranking_results,
                   arg, ret>>

\* main calls rank_cvs
CallRankCvs ==
    /\ pc = "process"
    /\ Len(cv_data_list) = Len(cv_paths)
    /\ all_results' = <<>>
    /\ batch_start' = 0
    /\ pc' = "batches"
    /\ UNCHANGED <<files, cv_paths, job_description, batch_size, weights, cv_data_list, batch,
                   batch_results, ranked_results, service, requests, ranking_results, arg, ret>>

\* rank_cvs takes the next batch and calls batch_process
NextBatch ==
    /\ pc = "batches"
    /\ batch_start < Len(cv_data_list)
    /\ batch' = BatchSlice(cv_data_list, batch_start, batch_size)
    /\ batch_results' = <<>>
    /\ pc' = "batch"
    /\ UNCHANGED <<files, cv_paths, job_description, batch_size, weights, cv_data_list, batch_start,
                   all_results, ranked_results, service, requests, ranking_results, arg, ret>>

\* one turn of batch_process' loop: evaluate_cv on the next CV of the batch; an
\* exception leaving evaluate_cv would leave rank_cvs and reach main's except
EvaluateNextCv ==
    /\ pc = "batch"
    /\ Len(batch_results) < Len(batch)
    /\ \E script \in [1..1 -> RunOutcomes] :
          LET r == EvaluateCv(job_description, batch[Len(batch_results) + 1], script, weights)
          IN /\ service' = script
             /\ requests' = RequestsMade(job_description, batch[Len(batch_results) + 1], script)
             /\ IF r.raised
                THEN /\ pc' = "aborted"
                     /\ UNCHANGED batch_results
                ELSE /\ batch_results' = Append(batch_results, r.value)
                     /\ UNCHANGED pc
    /\ UNCHANGED <<files, cv_paths, job_description, batch_size, weights, cv_data_list, batch_start,
                   batch, all_results, ranked_results, ranking_results, arg, ret>>

\* batch_process returns and rank_cvs extends all_results
EndBatch ==
    /\ pc = "batch"
    /\ Len(batch_results) = Len(batch)
    /\ all_results' = all_results \o batch_results
    /\ batch_start' = batch_start + batch_size
    /\ pc' = "batches"
    /\ UNCHANGED <<files, cv_paths, job_description, batch_size, weights, cv_data_list, batch,
                   batch_results, ranked_results, service, requests, ranking_results, arg, ret>>

\* a sort that does not wait for the last batch
SortResultsEarly ==
    /\ pc = "batches"
    /\ ranked_results' = SortedDesc(all_results)
    /\ pc' = "ranking"
    /\ UNCHANGED <<files, cv_paths, job_description, batch_size, weights, cv_data_list, batch_start,
                   batch, batch_results, all_results, service, requests, ranking_results,
                   arg, ret>>

\* after the last batch: the sort
SortResults ==
    /\ pc = "batches"
    /\ ~(batch_start < Len(cv_data_list))
    /\ ranked_results' = SortedDesc(all_results)
    /\ pc' = "ranking"
    /\ UNCHANGED <<files, cv_paths, job_description, batch_size, weights, cv_data_list, batch_start,
                   batch, batch_results, all_results, service, requests, ranking_results,
                   arg, ret>>

\* a ranking loop that writes the rank into the CV of the list as well
AssignRanksMarkingInputs ==
    /\ pc = "ranking"
    /\ ranked_results' = WithRanks(ranked_results)
    /\ cv_data_list' = [i \in DOMAIN cv_data_list |->
                            [cv_data_list[i] EXCEPT !.keys = @ \cup {"rank"}]]
    /\ pc' = "ranked"
    /\ UNCHANGED <<files, cv_paths, job_description, batch_size, weights, batch_start,
                   batch, batch_results, all_results, service, requests, ranking_results,
                   arg, ret>>

\* the loop that writes result["rank"] = i + 1
AssignRanks ==
    /\ pc = "ranking"
    /\ ranked_results' = WithRanks(ranked_results)
    /\ pc' = "ranked"
    /\ UNCHANGED <<files, cv_paths, job_description, batch_size, weights, cv_data_list, batch_start,
                   batch, batch_results, all_results, service, requests, ranking_results,
                   arg, ret>>

\* rank_cvs returns and main stores the list in the session
StoreResults ==
    /\ pc = "ranked"
    /\ ranking_results' = ranked_results
    /\ pc' = "done"
    /\ UNCHANGED <<files, cv_paths, job_description, batch_size, weights, cv_data_list, batch_start,
                   batch, batch_results, all_results, ranked_results, service, requests,
                   arg, ret>>

Next ==
    \/ ClickRank
    \/ ProcessNextCv
    \/ CallRankCvs
    \/ NextBatch
    \/ EvaluateNextCv
    \/ EndBatch
    \/ SortResults
    \/ AssignRanks
    \/ StoreResults

Spec == Init /\ [][Next]_vars

----------------------------------------------------------------------------
(* A call of process_with_retry *)

\* what the service may do on a request of the call under check
ClientOutcomes == {Fails(m) : m \in FailureMessages} \cup {Replies(<<FullObj>>)}

IdleRun ==
    /\ files = <<>>
    /\ cv_paths = <<>>
    /\ job_description = "job description"
    /\ batch_size = BATCH_SIZE
    /\ weights = WEIGHTS
    /\ cv_data_list = <<>>
    /\ batch_start = 0
    /\ batch = <<>>
    /\ batch_results = <<>>
    /\ all_results = <<>>
    /\ ranked_results = <<>>
    /\ service = <<>>
    /\ requests = 0
    /\ ranking_results = <<>>

InitClient ==
    /\ pc = "call"
    /\ \E script \in SeqUpTo(ClientOutcomes, MaxAttempts) \ {<<>>}, max_retries \in 0..MaxAttempts :
          arg = [script |-> script, max_retries |-> max_retries,
                 backoff_factor |-> DEFAULT_BACKOFF_FACTOR]
    /\ ret = RunIdle
    /\ IdleRun

CallProcessWithRetry ==
    /\ pc = "call"
    /\ ret' = ProcessWithRetry(arg.script, arg.max_retries, arg.backoff_factor)
    /\ pc' = "returned"
    /\ UNCHANGED <<arg, runVars>>

NextClient == CallProcessWithRetry

SpecClient == InitClient /\ [][NextClient]_vars

----------------------------------------------------------------------------
(* A call of parse_json_response *)

InitParse ==
    /\ pc = "call"
    /\ \E chunks \in SeqUpTo(Chunks, MaxChunks) : arg = Response(Expand(chunks))
    /\ ret = RunIdle
    /\ IdleRun

CallParseJsonResponse ==
    /\ pc = "call"
    /\ ret' = ParseJsonResponse(arg)
    /\ pc' = "returned"
    /\ UNCHANGED <<arg, runVars>>

NextParse == CallParseJsonResponse

SpecParse == InitParse /\ [][NextParse]_vars

----------------------------------------------------------------------------
(* A call of evaluate_cv from the request on *)

\* the CV is a valid one and its prompt is taken as formatted: the call starts at
\* the request to the service
InitEvaluate ==
    /\ pc = "call"
    /\ \E script \in SeqUpTo(RunOutcomes, 2) \ {<<>>}, sliders \in SliderSettings :
          arg = [filename |-> 1, script |-> script,
                 weights |-> SidebarWeights(sliders[1], sliders[2], sliders[3])]
    /\ ret = RunIdle
    /\ IdleRun

CallEvaluateResponse ==
    /\ pc = "call"
    /\ ret' = EvaluateResponse(arg.filename,
                  ProcessWithRetry(arg.script, DEFAULT_MAX_RETRIES, DEFAULT_BACKOFF_FACTOR),
                  arg.weights)
    /\ pc' = "returned"
    /\ UNCHANGED <<arg, runVars>>

NextEvaluate == CallEvaluateResponse

SpecEvaluate == InitEvaluate /\ [][NextEvaluate]_vars

----------------------------------------------------------------------------
(* rank_cvs from the end of its batches *)

\* what the service does for a CV that is evaluated
RankOutcomes ==
    { Fails("timeout"), Replies(<<Prose>>), Replies(<<ListLit>>), Replies(<<PartObj>>),
      Replies(<<FullObj>>) }

\* a file of the list and the service's answer for it: an unreadable file, for
\* which no request is made, or a file with text
RankInputs ==
    {[kind |-> "unreadable", outcome |-> Fails("timeout")]}
        \cup {[kind |-> "text", outcome |-> o] : o \in RankOutcomes}

\* the result evaluate_cv returns for a CV, the prompt of a CV with text taken as
\* formatted
EvaluateFromRequest(cv_data, outcome, w) ==
    IF "error" \in cv_data.keys \/ "full_text" \notin cv_data.keys \/ cv_data.full_text = ""
    THEN EvaluateCv("job description", cv_data, <<outcome>>, w).value
    ELSE EvaluateResponse(cv_data.filename,
             ProcessWithRetry(<<outcome>>, DEFAULT_MAX_RETRIES, DEFAULT_BACKOFF_FACTOR),
             w).value

\* the batches are done: all_results holds one result for each CV of the list
InitRank ==
    /\ pc = "batches"
    /\ \E n \in 0..MaxFiles :
          \E input \in [1..n -> RankInputs],
             w \in {SidebarWeights(sl[1], sl[2], sl[3]) : sl \in SliderSettings} :
             /\ cv_paths = [i \in 1..n |-> TempFile(i)]
             /\ files = [i \in 1..n |-> input[i].kind]
             /\ weights = w
             /\ cv_data_list = [i \in 1..n |-> ProcessCv(TempFile(i), input[i].kind)]
             /\ service = IF n = 0 THEN <<>> ELSE <<input[n].outcome>>
             /\ requests =
                   IF n = 0 \/ input[n].kind # "text" THEN 0
                   ELSE ProcessWithRetry(<<input[n].outcome>>, DEFAULT_MAX_RETRIES,
                                         DEFAULT_BACKOFF_FACTOR).calls
             /\ all_results =
                   [i \in 1..n |->
                       EvaluateFromRequest(ProcessCv(TempFile(i), input[i].kind),
                                           input[i].outcome, w)]
    /\ batch = cv_data_list
    /\ batch_results = all_results
    /\ job_description = "job description"
    /\ batch_size = BATCH_SIZE
    /\ batch_start = BATCH_SIZE
    /\ ranked_results = <<>>
    /\ ranking_results = <<>>
    /\ arg = RunIdle
    /\ ret = RunIdle

NextRank == SortResults \/ AssignRanks \/ StoreResults

SpecRank == InitRank /\ [][NextRank]_vars

----------------------------------------------------------------------------
(* rank_cvs under every batch size *)

\* a file and the service's answer for it
BatchInputs ==
    { [kind |-> "unreadable", outcome |-> Fails("timeout")],
      [kind |-> "text", outcome |-> Replies(<<Prose>>)],
      [kind |-> "text", outcome |-> Replies(<<PartObj>>)],
      [kind |-> "text", outcome |-> Replies(<<FullObj>>)] }

\* rank_cvs is called: BATCH_SIZE is any size up to one more than the longest
\* list, and arg holds the service's answer for each CV of the list and the
\* result evaluate_cv returns for the CV on that answer
InitBatches ==
    /\ pc = "batches"
    /\ \E n \in 0..MaxFiles :
          \E input \in [1..n -> BatchInputs], size \in 1..(MaxFiles + 1) :
             /\ cv_paths = [i \in 1..n |-> TempFile(i)]
             /\ files = [i \in 1..n |-> input[i].kind]
             /\ cv_data_list = [i \in 1..n |-> ProcessCv(TempFile(i), input[i].kind)]
             /\ batch_size = size
             /\ \E results \in
                      {[i \in 1..n |->
                          EvaluateFromRequest(ProcessCv(TempFile(i), input[i].kind),
                                              input[i].outcome, WEIGHTS)]} :
                   arg = [outcomes |-> [i \in 1..n |-> input[i].outcome],
                          results |-> results]
    /\ job_description = "job description"
    /\ weights = WEIGHTS
    /\ batch_start = 0
    /\ batch = <<>>
    /\ batch_results = <<>>
    /\ all_results = <<>>
    /\ ranked_results = <<>>
    /\ service = <<>>
    /\ requests = 0
    /\ ranking_results = <<>>
    /\ ret = RunIdle

\* one turn of batch_process' loop, the prompt of a CV with text taken as
\* formatted and the service answering as arg says for this CV
EvaluateNextCvFromRequest ==
    /\ pc = "batch"
    /\ Len(batch_results) < Len(batch)
    /\ LET cv_data == batch[Len(batch_results) + 1]
           outcome == arg.outcomes[batch_start + Len(batch_results) + 1]
       IN /\ batch_results' = Append(batch_results, EvaluateFromRequest(cv_data, outcome, weights))
          /\ service' = <<outcome>>
          /\ requests' =
                IF "error" \in cv_data.keys \/ "full_text" \notin cv_data.keys
                      \/ cv_data.full_text = ""
                THEN 0
                ELSE ProcessWithRetry(<<outcome>>, DEFAULT_MAX_RETRIES,
                                      DEFAULT_BACKOFF_FACTOR).calls
    /\ UNCHANGED <<pc, files, cv_paths, job_description, batch_size, weights, cv_data_list,
                   batch_start, batch, all_results, ranked_results, ranking_results, arg, ret>>

NextBatches ==
    \/ NextBatch
    \/ EvaluateNextCvFromRequest
    \/ EndBatch
    \/ SortResults
    \/ AssignRanks
    \/ StoreResults

SpecBatches == InitBatches /\ [][NextBatches]_vars

----------------------------------------------------------------------------
(* A call of evaluate_cv *)

\* the service's answer to the request of the call
CvOutcomes == {Fails("timeout")} \cup {Replies(c) : c \in RunReplies}

InitEvaluateCv ==
    /\ pc = "call"
    /\ \E kind \in FileKinds, outcome \in CvOutcomes, sliders \in SliderSettings :
          arg = [cv_data |-> ProcessCv(TempFile(1), kind), outcome |-> outcome,
                 weights |-> SidebarWeights(sliders[1], sliders[2], sliders[3])]
    /\ ret = RunIdle
    /\ IdleRun

\* evaluate_cv as it is
CallEvaluateCv ==
    /\ pc = "call"
    /\ ret' = EvaluateCv("job description", arg.cv_data, <<arg.outcome>>, arg.weights).value
    /\ pc' = "returned"
    /\ UNCHANGED <<arg, runVars>>

\* evaluate_cv with the prompt of a CV with text taken as formatted, which shows
\* the returns of lines 80-138
CallEvaluateCvFromRequest ==
    /\ pc = "call"
    /\ ret' = EvaluateFromRequest(arg.cv_data, arg.outcome, arg.weights)
    /\ pc' = "requested"
    /\ UNCHANGED <<arg, runVars>>

NextEvaluateCv == CallEvaluateCv \/ CallEvaluateCvFromRequest

SpecEvaluateCv == InitEvaluateCv /\ [][NextEvaluateCv]_vars

----------------------------------------------------------------------------
(* A call of calculate_weighted_score *)

\* the scores a category holds, some of them off the 0-10 scale
ScoreValues == {-1, 6, 8, 10, 12}

\* the weights in force: those of config, the sliders left at 1 / 0 / 0, and
\* mappings set by hand, two of which do not sum to 1
WeightMappings ==
    { WEIGHTS,
      SidebarWeights(20, 0, 0),
      [skills |-> Decimal(5, 10), experience |-> Decimal(3, 10), education |-> Decimal(2, 10)],
      [skills |-> Decimal(35, 100), experience |-> Decimal(35, 100), education |-> Decimal(3, 10)],
      [skills |-> FromInt(1), experience |-> FromInt(1), education |-> FromInt(1)],
      [skills |-> Decimal(1, 10), experience |-> Decimal(2, 10), education |-> Decimal(3, 10)] }

ScoredRecord(skills, experience, education) ==
    Dict({"skills", "experience", "education", "overall"}, NoMsg,
         Category(skills, <<"detailed explanation">>, <<"strength1">>, <<"gap1">>),
         Category(experience, <<"detailed explanation">>, <<"strength1">>, <<"gap1">>),
         Category(education, <<"detailed explanation">>, <<"strength1">>, <<"gap1">>),
         Category(8, <<"overall assessment">>, <<>>, <<>>))

InitScore ==
    /\ pc = "call"
    /\ \E sk \in ScoreValues, ex \in ScoreValues, ed \in ScoreValues, w \in WeightMappings :
          arg = [evaluation |-> ScoredRecord(sk, ex, ed), weights |-> w]
    /\ ret = RunIdle
    /\ IdleRun

CallCalculateWeightedScore ==
    /\ pc = "call"
    /\ ret' = CalculateWeightedScore(arg.evaluation, arg.weights)
    /\ pc' = "returned"
    /\ UNCHANGED <<arg, runVars>>

NextScore == CallCalculateWeightedScore

SpecScore == InitScore /\ [][NextScore]_vars

----------------------------------------------------------------------------
(* A call of generate_ranking_report *)

\* the longest list of results a report is made of
MaxResults == 6

\* a file and the service's answer for it: they give a Failed result, a
\* Warning and a Success
ReportInputs ==
    { [kind |-> "unreadable", outcome |-> Fails("timeout")],
      [kind |-> "text", outcome |-> Replies(<<Prose>>)],
      [kind |-> "text", outcome |-> Replies(<<FullObj>>)] }

\* the result evaluate_cv returns for each kind of input; the file's name is put
\* in by RankedResults
ReportResults ==
    [inp \in ReportInputs |->
        EvaluateFromRequest(ProcessCv(TempFile(1), inp.kind), inp.outcome, WEIGHTS)]

\* the list rank_cvs returns for the files of input, named 1, 2, ...: sorted
\* and ranked
RankedResults(evaluated, input) ==
    WithRanks(SortedDesc([i \in DOMAIN input |-> [evaluated[input[i]] EXCEPT !.filename = i]]))

InitReport ==
    /\ pc = "call"
    /\ \E evaluated \in {ReportResults} :
          \E n \in 0..MaxResults :
             \E input \in [1..n -> ReportInputs] :
                \E results \in {RankedResults(evaluated, input)} : arg = [results |-> results]
    /\ ret = RunIdle
    /\ IdleRun

CallGenerateRankingReport ==
    /\ pc = "call"
    /\ ret' = GenerateRankingReport(arg.results)
    /\ pc' = "returned"
    /\ UNCHANGED <<arg, runVars>>

NextReport == CallGenerateRankingReport

SpecReport == InitReport /\ [][NextReport]_vars

----------------------------------------------------------------------------
(* A call of calculate_weighted_score on records and weights out of shape *)

\* what a category of the record holds: nothing (the key is absent), a record
\* with a score, an entry that is no JSON object, a record whose score is no
\* number
CategoryEntries ==
    { NoCategory,
      Category(8, <<"detailed explanation">>, <<"strength1">>, <<"gap1">>),
      NonRecord("str"),
      NonRecord("none"),
      NonNumberScored("str"),
      NonNumberScored("none") }

\* the weights of config, and mappings that lack a key
ShapedWeights ==
    { WEIGHTS,
      [skills |-> Decimal(5, 10), experience |-> Decimal(5, 10)],
      [experience |-> Decimal(4, 10), education |-> Decimal(2, 10)] }

ShapedRecord(skills, experience, education) ==
    Dict({k \in {"skills", "experience", "education"} :
             [skills |-> skills, experience |-> experience, education |-> education][k]
                 # NoCategory},
         NoMsg, skills, experience, education, NoCategory)

InitShaped ==
    /\ pc = "call"
    /\ \E sk \in CategoryEntries, ex \in CategoryEntries, ed \in CategoryEntries,
          w \in ShapedWeights :
          arg = [evaluation |-> ShapedRecord(sk, ex, ed), weights |-> w]
    /\ ret = RunIdle
    /\ IdleRun

CallScoreShaped ==
    /\ pc = "call"
    /\ ret' = CalculateWeightedScore(arg.evaluation, arg.weights)
    /\ pc' = "returned"
    /\ UNCHANGED <<arg, runVars>>

NextShaped == CallScoreShaped

SpecShaped == InitShaped /\ [][NextShaped]_vars

----------------------------------------------------------------------------
(* The results shown and exported *)

\* a file and the service's answer for it: results of all three statuses, a
\* record without education, and a reply that decodes to a list
ViewInputs ==
    ReportInputs \cup { [kind |-> "text", outcome |-> Replies(<<PartObj>>)],
                        [kind |-> "text", outcome |-> Replies(<<ListLit>>)] }

\* the result evaluate_cv returns for each of them
ViewResults ==
    [inp \in ViewInputs |->
        EvaluateFromRequest(ProcessCv(TempFile(1), inp.kind), inp.outcome, WEIGHTS)]

\* st.session_state.ranking_results holds the list rank_cvs returned
InitView ==
    /\ pc = "stored"
    /\ \E evaluated \in {ViewResults} :
          \E n \in 0..MaxFiles :
             \E input \in [1..n -> ViewInputs] :
                \E results \in {RankedResults(evaluated, input)} : arg = [results |-> results]
    /\ ret = RunIdle
    /\ IdleRun

CallDisplayRankingTable ==
    /\ pc = "stored"
    /\ ret' = DisplayRankingTable(arg.results)
    /\ pc' = "table"
    /\ UNCHANGED <<arg, runVars>>

CallExportResults ==
    /\ pc = "stored"
    /\ ret' = ExportResults(arg.results)
    /\ pc' = "export"
    /\ UNCHANGED <<arg, runVars>>

NextView == CallDisplayRankingTable \/ CallExportResults

SpecView == InitView /\ [][NextView]_vars

----------------------------------------------------------------------------
(* Properties *)

Range(f) == {f[i] : i \in DOMAIN f}

\* the status of a result, read off its fields: Failed with an error field,
\* Warning with a warning field and no error field, Success with neither
Status(r) ==
    IF "error" \in r.keys THEN "Failed"
    ELSE IF "warning" \in r.keys THEN "Warning"
    ELSE "Success"

\* a record with the three category keys and no failure flag
ValidRecord(v) ==
    /\ v.kind = "dict"
    /\ {"skills", "experience", "education"} \subseteq v.keys
    /\ "error" \notin v.keys

\* the zero-filled category of the documented fallback record
ZeroCategory == Category(0, <<"Error parsing response">>, <<>>, <<>>)

\* a reply no strategy turns into a valid record
Unparseable(chunks) == ~ValidRecord(ParseJsonResponse(Response(Expand(chunks))).value)

\* a CV with text, as process_cv hands it on
ValidCv(cv) == "error" \notin cv.keys /\ "full_text" \in cv.keys /\ cv.full_text # ""

\* C1: evaluate_cv tells the two failures apart: a CV whose reply no strategy
\* parses ends as Warning, with no error field, a warning, and an evaluation whose
\* four scores are 0; a CV whose requests all fail ends as Failed with no
\* evaluation. (The statement of the claim; the code violates it.)
C1_WarningVsFailed ==
    (pc = "returned" /\ ~ret.raised) =>
        /\ (arg.script[1].ok /\ Unparseable(arg.script[1].reply)) =>
              /\ Status(ret.value) = "Warning"
              /\ ret.value.evaluation.kind = "dict"
              /\ \A k \in {"skills", "experience", "education", "overall"} :
                    /\ k \in ret.value.evaluation.keys
                    /\ ret.value.evaluation[k].score = 0
        /\ (\A k \in 1..DEFAULT_MAX_RETRIES : ~OutcomeAt(arg.script, k).ok) =>
              /\ Status(ret.value) = "Failed"
              /\ ret.value.evaluation = None

\* a reply that no strategy parses has come out of evaluate_cv as Warning, with
\* the zero-filled evaluation
C1_Witness ==
    /\ pc = "returned"
    /\ arg.script[1] = Replies(<<Prose>>)
    /\ Status(ret.value) = "Warning"
    /\ ret.value.evaluation.skills = ZeroCategory

\* evaluate_cv returns a result, with one of the three statuses, whatever
\* process_with_retry hands it
EvaluateResponseReturns ==
    pc = "returned" =>
        /\ ~ret.raised
        /\ {"filename", "score", "evaluation"} \subseteq ret.value.keys
        /\ Status(ret.value) \in {"Success", "Warning", "Failed"}

\* the first max_retries requests of the call all fail
AllRequestsFail == \A k \in 1..arg.max_retries : ~OutcomeAt(arg.script, k).ok

\* C2: with max_retries = 3 a service that fails on every request is called more
\* than once, and a service that fails once and then replies yields the reply.
\* (The statement of the claim; the code violates it.)
C2_RetriesAfterFailure ==
    pc = "returned" =>
        /\ (arg.max_retries = DEFAULT_MAX_RETRIES /\ AllRequestsFail) => ret.calls > 1
        /\ (arg.max_retries = DEFAULT_MAX_RETRIES /\ Len(arg.script) >= 2
            /\ ~arg.script[1].ok /\ arg.script[2].ok) =>
              (ret.returned /\ "content" \in ret.value.keys)

\* C3: a call whose every request fails ends after at most max_retries requests
\* and returns, without raising, an error whose message is that of the last
\* request that failed.
C3_ErrorReturnedNotRaised ==
    (pc = "returned" /\ arg.max_retries >= 1 /\ ~arg.script[1].ok) =>
        /\ ~ret.raised
        /\ ret.returned
        /\ ret.calls \in 1..arg.max_retries
        /\ \A k \in 1..ret.calls : ~OutcomeAt(arg.script, k).ok
        /\ ret.value.keys = {"error"}
        /\ ret.value.error = Msg(<<OutcomeAt(arg.script, ret.calls).msg>>, <<>>)

\* a call with three retries allowed has failed with the message "rate limit"
C3_Witness ==
    /\ pc = "returned"
    /\ arg.max_retries = DEFAULT_MAX_RETRIES
    /\ arg.script[1] = Fails("rate limit")
    /\ ret.value = ErrorResponse(Msg(<<"rate limit">>, <<>>))

\* C4: a call whose requests all fail sleeps backoff_factor^1, backoff_factor^2,
\* ... in that order, once between each two consecutive requests. (The statement
\* of the claim; the code violates it.)
C4_BackoffSchedule ==
    (pc = "returned" /\ arg.max_retries >= 2 /\ AllRequestsFail) =>
        ret.sleeps = [k \in 1..(arg.max_retries - 1) |-> Pow(arg.backoff_factor, k)]

\* C5: no exception leaves evaluate_cv, and once the batches are done rank_cvs
\* holds one result for every CV of the list, in list order, each with a
\* filename, a score and an evaluation field.
C5_NoFailureEscapes ==
    /\ pc # "aborted"
    /\ pc \in {"ranking", "ranked", "done"} =>
          /\ Len(all_results) = Len(cv_data_list)
          /\ \A i \in DOMAIN all_results :
                /\ all_results[i].filename = cv_data_list[i].filename
                /\ {"filename", "score", "evaluation"} \subseteq all_results[i].keys
                /\ Status(all_results[i]) \in {"Success", "Warning", "Failed"}

\* a run has ended in which a CV that failed extraction and a CV whose evaluation
\* ran into an exception were each followed by the evaluation of another CV
C5_Witness ==
    /\ pc = "done"
    /\ Len(cv_data_list) = 3
    /\ "error" \in cv_data_list[1].keys
    /\ ValidCv(cv_data_list[2])
    /\ all_results[2].error.parts[1] = "Error evaluating CV "
    /\ Len(all_results) = 3

\* C6: the list a run stores has one entry for each uploaded file, every file
\* name exactly once, and a file that failed extraction holds an entry with an
\* error and score 0.
C6_OneResultPerFile ==
    pc = "done" =>
        /\ Len(ranking_results) = Len(cv_paths)
        /\ \A i \in DOMAIN cv_paths :
              /\ Cardinality({j \in DOMAIN ranking_results :
                                 ranking_results[j].filename = Basename(cv_paths[i])}) = 1
              /\ files[i] \in {"missing", "unreadable", "blank"} =>
                    \E j \in DOMAIN ranking_results :
                        /\ ranking_results[j].filename = Basename(cv_paths[i])
                        /\ FloatEq(ranking_results[j].score, Zero)
                        /\ "error" \in ranking_results[j].keys

\* a run over three files has ended, one of the files unreadable
C6_Witness ==
    /\ pc = "done"
    /\ Len(cv_paths) = 3
    /\ files[2] = "unreadable"
    /\ Len(ranking_results) = 3

\* C7: a value returned without a failure flag is a record with skills,
\* experience and education. (The statement of the claim; the code violates it.)
C7_ReturnedRecordsAreValid ==
    (pc = "returned" /\ ~HasKey(ret.value, "error")) => ValidRecord(ret.value)

\* the labeled fenced block of the reply does not decode, and the brace scan
\* found nothing before it
LabeledBlockUndecodable ==
    /\ HasLabeledFence(arg.content)
    /\ ~BraceScan(arg.content).found
    /\ ~JsonLoads(LabeledBlock(arg.content)).ok

\* the exact products of a call's scores and weights, their sum and the sum of
\* their magnitudes
ExactProducts ==
    [k \in {"skills", "experience", "education"} |->
        ExactMul(FromInt(arg.evaluation[k].score), arg.weights[k])]
ExactSum ==
    ExactAdd(ExactAdd(ExactProducts.skills, ExactProducts.experience), ExactProducts.education)
Abs(x) == Dyadic(FALSE, x.man, x.exp)
MagnitudeSum ==
    ExactAdd(ExactAdd(Abs(ExactProducts.skills), Abs(ExactProducts.experience)),
             Abs(ExactProducts.education))
ConfigCase ==
    /\ arg.weights = [skills |-> Decimal(4, 10), experience |-> Decimal(4, 10),
                      education |-> Decimal(2, 10)]
    /\ arg.evaluation.skills.score = 8
    /\ arg.evaluation.experience.score = 6
    /\ arg.evaluation.education.score = 10

\* C12 as stated: the score is exactly the weighted sum, that is the float
\* nearest to it, and for weights 0.4 / 0.4 / 0.2 and scores 8 / 6 / 10 it is the
\* float 7.6. (The statement of the claim; the code's float arithmetic violates it.)
C12_ExactWeightedSum ==
    pc = "returned" =>
        /\ ret = RoundToDouble(ExactSum)
        /\ ConfigCase => ret = Decimal(76, 10)

\* C12 as amended: the score is the weighted sum up to float rounding, within
\* 2^-50 of the sum of the products' magnitudes, neither inputs nor output
\* clamped or normalised; for weights 0.4 / 0.4 / 0.2 and scores 8 / 6 / 10 it is
\* 7.6000000000000005, the float next above 7.6.
C12_WeightedSumUpToRounding ==
    pc = "returned" =>
        /\ ~FloatLess(ExactMul(Dyadic(FALSE, <<1>>, -50), MagnitudeSum),
                      Abs(ExactAdd(ret, Neg(ExactSum))))
        /\ ConfigCase => ExactAdd(ret, Neg(Decimal(76, 10))) = Dyadic(FALSE, <<1>>, -50)

\* a call with scores off the scale and weights that sum to 3 has returned 36
C12_Witness ==
    /\ pc = "returned"
    /\ arg.evaluation.skills.score = 12
    /\ arg.evaluation.experience.score = 12
    /\ arg.evaluation.education.score = 12
    /\ arg.weights.skills = FromInt(1)
    /\ arg.weights.education = FromInt(1)
    /\ ret = FromInt(36)

\* where a ranked result stood in the list before the sort
Position(r) == CHOOSE i \in DOMAIN all_results : all_results[i].filename = r.filename
Sorted == pc \in {"ranking", "ranked", "done"}

\* C13: the list rank_cvs returns is in descending order of score, whatever the
\* mix of Success, Warning and Failed results.
C13_DescendingScores ==
    Sorted =>
        \A i, j \in DOMAIN ranked_results :
            i < j => ~FloatLess(ranked_results[i].score, ranked_results[j].score)

\* a list that began with a Failed and a Warning result and ended with a Success
\* of positive score has been sorted, the Success now first
C13_Witness ==
    /\ pc = "done"
    /\ Len(all_results) = 3
    /\ Status(all_results[1]) = "Failed"
    /\ Status(all_results[2]) = "Warning"
    /\ Status(all_results[3]) = "Success"
    /\ FloatLess(Zero, all_results[3].score)
    /\ ranking_results[1].filename = all_results[3].filename

\* C14: the sort is stable: two results of equal score stand in the order their
\* documents had in the input list.
C14_StableSort ==
    Sorted =>
        \A i, j \in DOMAIN ranked_results :
            (i < j /\ FloatEq(ranked_results[i].score, ranked_results[j].score)) =>
                Position(ranked_results[i]) < Position(ranked_results[j])

\* a list of a Warning, a Success of positive score and a Failed result has been
\* sorted: the Success moved to the front, the two results of score 0 kept their order
C14_Witness ==
    /\ pc = "done"
    /\ Len(all_results) = 3
    /\ Status(all_results[1]) = "Warning"
    /\ FloatLess(Zero, all_results[2].score)
    /\ Status(all_results[3]) = "Failed"
    /\ ranking_results[2].filename = all_results[1].filename
    /\ ranking_results[3].filename = all_results[3].filename

\* C15: once rank_cvs has returned, every result carries its index in the list
\* plus one as rank, so the ranks are 1..N, tied scores included.
C15_RanksAreIndices ==
    pc \in {"ranked", "done"} =>
        /\ \A i \in DOMAIN ranked_results :
              "rank" \in ranked_results[i].keys /\ ranked_results[i].rank = i
        /\ {ranked_results[i].rank : i \in DOMAIN ranked_results} = 1..Len(all_results)

\* three results of one score have been ranked 1, 2 and 3
C15_Witness ==
    /\ pc = "done"
    /\ Len(ranking_results) = 3
    /\ FloatEq(ranking_results[1].score, ranking_results[3].score)
    /\ ranking_results[3].rank = 3

\* the CV evaluated last in the batch and its result
Evaluated == pc = "batch" /\ batch_results # <<>>
LastCv == batch[Len(batch_results)]
LastResult == batch_results[Len(batch_results)]

\* C16: for a CV with no extraction error and with text, evaluate_cv builds the
\* prompt and calls the client with it: at least one request is made, and the
\* result is the one the client's and the parser's results decide. (The
\* statement of the claim; the code violates it.)
C16_ClientInvokedForValidCv ==
    (Evaluated /\ ValidCv(LastCv)) =>
        /\ requests >= 1
        /\ LastResult =
              EvaluateResponse(LastCv.filename,
                  ProcessWithRetry(service, DEFAULT_MAX_RETRIES, DEFAULT_BACKOFF_FACTOR),
                  weights).value

\* a CV with text has been evaluated: no request was made, and the result is
\* Failed with the error of the outer except, though the service would have
\* replied with a complete record
C16_Witness ==
    /\ Evaluated
    /\ ValidCv(LastCv)
    /\ service = <<Replies(<<FullObj>>)>>
    /\ requests = 0
    /\ Status(LastResult) = "Failed"
    /\ LastResult.error.parts[1] = "Error evaluating CV "

\* the results of a list that did not fail, in the list's order
NonFailed(results) == SelectSeq(results, LAMBDA r : Status(r) \in {"Success", "Warning"})

\* C17: the report's top candidates are the first five results of the ranked
\* list whose status is Success or Warning, all of them where there are fewer
\* than five, also where Failed results hold some of the first five ranks.
\* (The statement of the claim; the code violates it.)
C17_TopFiveNonFailed ==
    pc = "returned" =>
        LET non_failed == NonFailed(arg.results)
        IN ret.top_candidates =
              SubSeq(non_failed, 1, IF Len(non_failed) < 5 THEN Len(non_failed) ELSE 5)

\* a report is made of a list with a Failed result among the first five ranks
\* and a result that did not fail below them: fewer than five top candidates
C17_Witness ==
    /\ pc = "returned"
    /\ \E i \in 1..5 : i <= Len(arg.results) /\ Status(arg.results[i]) = "Failed"
    /\ \E j \in DOMAIN arg.results : j > 5 /\ Status(arg.results[j]) # "Failed"
    /\ Len(NonFailed(arg.results)) >= 5
    /\ Len(ret.top_candidates) < 5

\* the number of results of a list whose status is one of S
CountStatus(results, S) == Cardinality({i \in DOMAIN results : Status(results[i]) \in S})

\* C18: the report counts every result once: the total is the number of
\* results, the successful ones are those with status Success or Warning, the
\* failed ones those with status Failed, and the two counts add up to the total.
C18_CountsPartitionResults ==
    pc = "returned" =>
        /\ ret.total_cvs = Len(arg.results)
        /\ ret.successful_evaluations = CountStatus(arg.results, {"Success", "Warning"})
        /\ ret.failed_evaluations = CountStatus(arg.results, {"Failed"})
        /\ ret.successful_evaluations + ret.failed_evaluations = ret.total_cvs

\* a report is made of a list that holds results of all three statuses
C18_Witness ==
    /\ pc = "returned"
    /\ {Status(arg.results[i]) : i \in DOMAIN arg.results} = {"Success", "Warning", "Failed"}
    /\ ret.successful_evaluations >= 2
    /\ ret.failed_evaluations >= 1

\* the scores of a list added as floats, one after the other from 0, and added
\* exactly, and the exact sum of their magnitudes
RECURSIVE FloatTotal(_)
FloatTotal(scores) ==
    IF scores = <<>> THEN Zero
    ELSE FloatAdd(FloatTotal(SubSeq(scores, 1, Len(scores) - 1)), scores[Len(scores)])
RECURSIVE ExactTotal(_)
ExactTotal(scores) ==
    IF scores = <<>> THEN Zero ELSE ExactAdd(scores[1], ExactTotal(Tail(scores)))
RECURSIVE MagnitudeTotal(_)
MagnitudeTotal(scores) ==
    IF scores = <<>> THEN Zero ELSE ExactAdd(Abs(scores[1]), MagnitudeTotal(Tail(scores)))
Scores(results) == [i \in DOMAIN results |-> results[i].score]

\* C19: the report's average is the sum of the scores of all results, Failed
\* ones adding 0, divided by the number of results: the float quotient of the
\* float sum and the count, which times the count is within count * 2^-52 of
\* the exact sum of the scores of the results that did not fail (taken by
\* magnitude); of an empty list the average is 0 and all counts are 0.
C19_AverageOverAllResults ==
    pc = "returned" =>
        LET n == Len(arg.results)
            scored == Scores(NonFailed(arg.results))
        IN IF n = 0
           THEN /\ ret.average_score = Zero
                /\ ret.total_cvs = 0
                /\ ret.successful_evaluations = 0
                /\ ret.failed_evaluations = 0
           ELSE /\ \A i \in 1..n : Status(arg.results[i]) = "Failed" => arg.results[i].score = Zero
                /\ ret.average_score = FloatDiv(FloatTotal(Scores(arg.results)), FromInt(n))
                /\ ~FloatLess(ExactMul(Dyadic(FALSE, Digits(n), -52), MagnitudeTotal(scored)),
                              Abs(ExactAdd(ExactMul(ret.average_score, FromInt(n)),
                                           Neg(ExactTotal(scored)))))

\* a report is made of a list with a Failed result and Success results: the
\* average is above 0 and below the score of the best result
C19_Witness ==
    /\ pc = "returned"
    /\ Len(arg.results) >= 3
    /\ Status(arg.results[Len(arg.results)]) = "Failed"
    /\ Status(arg.results[2]) = "Success"
    /\ FloatLess(Zero, ret.average_score)
    /\ FloatLess(ret.average_score, arg.results[1].score)

\* what process_with_retry hands to evaluate_cv in the call under check, and
\* what the parser makes of it
ClientReply == ProcessWithRetry(arg.script, DEFAULT_MAX_RETRIES, DEFAULT_BACKOFF_FACTOR)
Parsed == ParseJsonResponse(ClientReply.value).value
CleanParse ==
    /\ ClientReply.returned
    /\ "error" \notin ClientReply.value.keys
    /\ Parsed.kind = "dict"
    /\ ~HasKey(Parsed, "error")

\* C20: where the client hands back a reply and the parser returns a record
\* without an error key, evaluate_cv returns a result with neither an error nor
\* a warning (status Success), whose evaluation is that record and whose score
\* is the weighted score of the record under the weights in force.
C20_CleanParseGivesSuccess ==
    (pc = "returned" /\ CleanParse) =>
        /\ ~ret.raised
        /\ Status(ret.value) = "Success"
        /\ ret.value.keys \cap {"error", "warning"} = {}
        /\ ret.value.evaluation = Parsed
        /\ ret.value.score = CalculateWeightedScore(Parsed, arg.weights)

\* the request is answered with a complete record: the result is a Success that
\* holds the record and a score above 0
C20_Witness ==
    /\ pc = "returned"
    /\ CleanParse
    /\ arg.script = <<Replies(<<FullObj>>)>>
    /\ Status(ret.value) = "Success"
    /\ ret.value.evaluation = FullRecord
    /\ FloatLess(Zero, ret.value.score)

\* C21: a CV that carries an extraction error, or whose text is missing or
\* empty, goes straight to Failed: the result has score 0 and no evaluation, its
\* error is the CV's own or that of the missing text, not one met on the way to
\* the service, and no request is made for it.
C21_InvalidGoesToFailed ==
    (Evaluated /\ ~ValidCv(LastCv)) =>
        /\ requests = 0
        /\ Status(LastResult) = "Failed"
        /\ LastResult.score = Zero
        /\ LastResult.evaluation = None
        /\ LastResult.error =
              IF "error" \in LastCv.keys THEN LastCv.error
              ELSE Msg(<<"No CV text available for evaluation">>, <<>>)

\* a CV whose text came out empty, after one with an extraction error, has been
\* evaluated: Failed for the missing text
C21_Witness ==
    /\ Evaluated
    /\ Len(batch_results) = 2
    /\ "error" \in batch[1].keys
    /\ Status(batch_results[1]) = "Failed"
    /\ "error" \notin LastCv.keys
    /\ LastCv.full_text = ""
    /\ LastResult.error = Msg(<<"No CV text available for evaluation">>, <<>>)
    /\ requests = 0

\* a call of evaluate_cv has returned, by either of the two actions
CvEvaluated == pc \in {"returned", "requested"}

\* C22: every result evaluate_cv returns with an error (status Failed) has
\* score 0 and evaluation None, whichever return produced it: the CV's own error
\* or missing text, an API error, a parse error without fallback, or the outer
\* except; and no result has both an error and a warning.
C22_FailedHasNoScoreNoEvaluation ==
    CvEvaluated =>
        /\ Status(ret) = "Failed" => (ret.score = Zero /\ ret.evaluation = None
                                        /\ {"score", "evaluation"} \subseteq ret.keys)
        /\ ~({"error", "warning"} \subseteq ret.keys)

\* the error messages with which a Failed result begins, one for each return
FailedBy(r) == IF r.error.parts = <<>> THEN "" ELSE r.error.parts[1]

\* a CV with text got an empty reply: the parser's error has no fallback record
\* and the result is Failed by the parse error, with score 0 and no evaluation
C22_Witness ==
    /\ pc = "requested"
    /\ ValidCv(arg.cv_data)
    /\ arg.outcome = Replies(<<>>)
    /\ Status(ret) = "Failed"
    /\ FailedBy(ret) = "Error parsing API response: "
    /\ ret.score = Zero
    /\ ret.evaluation = None

\* the categories of the weighted sum
Categories == {"skills", "experience", "education"}

\* the call's inputs are out of shape: the weights lack a category, or a
\* category of the record is no record, or its score is no number
WeightsLackKey == \E k \in Categories : k \notin DOMAIN arg.weights
EntryNotRecord == \E k \in Categories : k \in arg.evaluation.keys /\ ~IsRecord(arg.evaluation[k])
ScoreNotNumber ==
    \E k \in Categories :
        /\ k \in arg.evaluation.keys
        /\ IsRecord(arg.evaluation[k])
        /\ ~IsNumber(arg.evaluation[k])

\* C23: where the weights mapping lacks a category key, or a category entry is
\* no record, or a category score is no number, calculate_weighted_score
\* returns 0.0: the failure inside it is not propagated.
C23_ScoreFailureGivesZero ==
    (pc = "returned" /\ (WeightsLackKey \/ EntryNotRecord \/ ScoreNotNumber)) => ret = Zero

\* a call has returned 0.0 whose skills score is 8 under weight 0.4 and whose
\* education score is a string
C23_Witness ==
    /\ pc = "returned"
    /\ arg.weights = WEIGHTS
    /\ arg.evaluation.skills = Category(8, <<"detailed explanation">>, <<"strength1">>, <<"gap1">>)
    /\ arg.evaluation.experience = NoCategory
    /\ arg.evaluation.education = NonNumberScored("str")
    /\ ret = Zero

\* C24: in the table and in the export, the Status of the rows tells Success,
\* Warning and Failed apart: two results of different status never get the same
\* Status, so a result with a parse warning is not shown as a cleanly parsed
\* one. (The statement of the claim; the code violates it.)
C24_RowsKeepThreeStatuses ==
    (pc \in {"table", "export"} /\ ~ret.raised) =>
        \A i \in DOMAIN ret.rows : \A j \in DOMAIN ret.rows :
            Status(arg.results[i]) # Status(arg.results[j])
                => ret.rows[i].Status # ret.rows[j].Status

\* the table of a Success and a Warning result is shown: both rows say Success
C24_Witness ==
    /\ pc = "table"
    /\ ~ret.raised
    /\ Len(arg.results) = 2
    /\ Status(arg.results[1]) = "Success"
    /\ Status(arg.results[2]) = "Warning"
    /\ ret.rows[1].Status = "Success"
    /\ ret.rows[2].Status = "Success"

\* every CV of the list has been evaluated: all_results holds its result, in
\* the place of the CV
AllEvaluated ==
    /\ Len(all_results) = Len(cv_data_list)
    /\ \A i \in DOMAIN all_results : all_results[i].filename = cv_data_list[i].filename

\* some result of the run carries a rank
SomeRanked ==
    \E rs \in {batch_results, all_results, ranked_results, ranking_results} :
        \E i \in DOMAIN rs : "rank" \in rs[i].keys

\* C25: the sort and the ranks come after the last evaluation: once rank_cvs has
\* sorted, and whenever a result carries a rank, every CV of the list has been
\* evaluated, and the sorted list holds one result for each of them.
C25_RankingIsBarrier ==
    /\ (pc \in {"ranking", "ranked", "done"} \/ ranked_results # <<>> \/ SomeRanked) => AllEvaluated
    /\ SomeRanked => pc \in {"ranked", "done"}
    /\ pc \in {"ranking", "ranked", "done"} => Len(ranked_results) = Len(cv_data_list)

\* three CVs are evaluated and the ranks 1..3 are assigned
C25_Witness ==
    /\ pc = "ranked"
    /\ Len(cv_data_list) = 3
    /\ AllEvaluated
    /\ \A i \in 1..3 : "rank" \in ranked_results[i].keys /\ ranked_results[i].rank = i

\* the result of each CV of the list, in the list's order, and the results
\* collected so far
ExpectedResults == arg.results
Collected == IF pc = "batch" THEN all_results \o batch_results ELSE all_results

\* C26: rank_cvs takes the list in contiguous batches of the batch size, the
\* last possibly shorter, and evaluates the CVs in the list's order, each once:
\* the results collected are those of the first CVs of the list, in order; after
\* the last batch they are those of the whole list, and the ranked list is the
\* sorted and ranked list of those results, whatever the batch size.
C26_BatchesKeepInputOrder ==
    LET expected == ExpectedResults
        collected == Collected
    IN /\ Len(collected) <= Len(cv_data_list)
       /\ \A i \in DOMAIN collected : collected[i] = expected[i]
       /\ pc = "batch" =>
             /\ Len(all_results) = batch_start
             /\ batch # <<>>
             /\ Len(batch) = batch_size \/ batch_start + Len(batch) = Len(cv_data_list)
             /\ Len(batch) <= batch_size
             /\ \A k \in DOMAIN batch : batch[k] = cv_data_list[batch_start + k]
       /\ pc \in {"ranking", "ranked", "done"} => all_results = expected
       /\ pc = "done" => ranking_results = WithRanks(SortedDesc(expected))

\* three CVs went through a batch of two and a batch of one, and the sort moved
\* the third CV to the first rank
C26_Witness ==
    /\ pc = "done"
    /\ batch_size = 2
    /\ Len(cv_data_list) = 3
    /\ Len(batch) = 1
    /\ ranking_results[1].filename = cv_data_list[3].filename
    /\ ranking_results = WithRanks(SortedDesc(ExpectedResults))

\* C27: from the moment the engine has its weights, no step of a run changes
\* the weights, the job description or a CV that has been processed: the list
\* of CVs only grows while main fills it, and is left as it is by rank_cvs.
C27_RunLeavesInputsUnchanged ==
    [][pc # "idle" =>
          /\ weights' = weights
          /\ job_description' = job_description
          /\ Len(cv_data_list') >= Len(cv_data_list)
          /\ \A i \in DOMAIN cv_data_list : cv_data_list'[i] = cv_data_list[i]
          /\ pc # "process" => cv_data_list' = cv_data_list]_vars

\* a run with the sliders at 1 / 0 / 0 is done: the weights are those the engine
\* was given and the three CVs are as process_cv returned them
C27_Witness ==
    /\ pc = "done"
    /\ weights = SidebarWeights(20, 0, 0)
    /\ Len(cv_data_list) = 3
    /\ \A i \in 1..3 : cv_data_list[i] = ProcessCv(cv_paths[i], files[i])
    /\ \E i \in 1..3 : ValidCv(cv_data_list[i])
    /\ \A i \in 1..3 : "rank" \in ranking_results[i].keys

\* C28: for every max_retries, 0 included, process_with_retry ends with a
\* return statement that hands back a response with content or an error
\* mapping. (The statement of the claim; the code violates it.)
C28_AlwaysReturnsMapping ==
    pc = "returned" =>
        /\ ~ret.raised
        /\ ret.returned
        /\ "content" \in ret.value.keys \/ ret.value.keys = {"error"}

\* a call with max_retries = 0 has ended: no request was made and the loop was
\* left without a return statement, so the caller holds None
C28_Witness ==
    /\ pc = "returned"
    /\ arg.max_retries = 0
    /\ ~ret.returned
    /\ ret.calls = 0

\* the record the span from the first opening brace to the last closing brace
\* decodes to, where that is an object with the three category keys
BraceSpan(content) ==
    LET open == {i \in DOMAIN content : HasOpenBrace(content[i])}
        close == {i \in DOMAIN content : HasCloseBrace(content[i])}
    IN IF open = {} \/ close = {} \/ SetMin(open) > SetMax(close) THEN <<>>
       ELSE SubSeq(content, SetMin(open), SetMax(close))
BraceSpanValid(content) ==
    JsonLoads(BraceSpan(content)).ok /\ ValidRecord(JsonLoads(BraceSpan(content)).value)

\* the labeled fenced blocks of a reply: what stands between a labeled fence and
\* the next fence
LabeledBlocks(content) ==
    {SubSeq(content, p[1] + 1, p[2] - 1) :
        p \in {q \in (DOMAIN content) \X (DOMAIN content) :
                 /\ q[1] < q[2]
                 /\ content[q[1]] = LabeledFence
                 /\ IsFence(content[q[2]])
                 /\ \A k \in (q[1] + 1)..(q[2] - 1) : ~IsFence(content[k])}}
ValidBlockRecords(content) ==
    {JsonLoads(b).value : b \in {x \in LabeledBlocks(content) :
                                   JsonLoads(x).ok /\ ValidRecord(JsonLoads(x).value)}}

\* C11: the brace scan comes before the labeled fenced block: a brace span that
\* decodes to a record with the three keys is what parse returns, labeled block
\* or not; where the brace span does not validate and a labeled fenced block of
\* the reply holds a valid record, the record of such a block is returned. (The
\* statement of the claim; the code violates its second half.)
C11_BraceScanBeforeLabeledBlock ==
    pc = "returned" =>
        /\ BraceSpanValid(arg.content) => ret.value = JsonLoads(BraceSpan(arg.content)).value
        /\ (~BraceSpanValid(arg.content) /\ ValidBlockRecords(arg.content) # {}) =>
              ret.value \in ValidBlockRecords(arg.content)

\* a reply with a stray brace before its one labeled block, which holds a valid
\* record, has been answered by the labeled-block strategy
C11_Witness ==
    /\ pc = "returned"
    /\ arg.content = <<LBrace, LabeledFence, FullObj, Fence>>
    /\ ret.via = 2
    /\ ret.value = FullRecord

\* C8: when the labeled fenced block does not decode, the unlabeled-block
\* strategy is still attempted, and a valid record it finds is returned. (The
\* statement of the claim; the code violates it.)
C8_NextStrategyAfterException ==
    (pc = "returned" /\ LabeledBlockUndecodable) =>
        /\ 3 \in Range(ret.tried)
        /\ (UnlabeledStrategy(arg.content).found
            /\ ValidRecord(UnlabeledStrategy(arg.content).value)) =>
              ret.value = UnlabeledStrategy(arg.content).value

\* a reply whose labeled block does not decode and whose later unlabeled block
\* holds a valid record has been answered by the outer except
C8_Witness ==
    /\ pc = "returned"
    /\ LabeledBlockUndecodable
    /\ UnlabeledStrategy(arg.content).found
    /\ ValidRecord(UnlabeledStrategy(arg.content).value)
    /\ ret.via = 7

\* C9: whenever no strategy yields a record, the value returned carries the
\* first 500 characters of the reply and the zero-filled fallback record. (The
\* statement of the claim; the code violates it.)
C9_FallbackShape ==
    (pc = "returned" /\ ret.via \notin 1..5) =>
        /\ ret.value.kind = "dict"
        /\ ret.value.keys = {"error", "skills", "experience", "education", "overall"}
        /\ ret.value.error.raw = Slice(arg.content, RAW_PREFIX)
        /\ RunsLen(ret.value.error.raw) <= RAW_PREFIX
        /\ \A k \in {"skills", "experience", "education"} : ret.value[k] = ZeroCategory
        /\ ret.value.overall.score = 0

\* C10: parse_json_response returns a value for every reply; it never raises.
C10_ParseNeverRaises ==
    pc = "returned" => (~ret.raised /\ ret.value.kind \in {"dict", "list", "num"})

\* a reply whose labeled block raised a decoding error has been answered with a value
C10_Witness ==
    /\ pc = "returned"
    /\ ret.via = 7
    /\ ~ret.raised
    /\ HasKey(ret.value, "error")

====
